---- MODULE Spec2Model ----
(***************************************************************************)
(* A model of sora2api's proxy pool (FreeProxyManager), proxy router       *)
(* (ProxyManager) and token lifecycle (TokenManager).                      *)
(*                                                                         *)
(* Conventions.  Python's None is the string "None" for text fields and    *)
(* NoTime for timestamps.  Wall-clock time `now` is in whole seconds.      *)
(* Probe response times are fixed-point numbers in units of 0.1 ms         *)
(* (TicksPerSec ticks to the second), so that the exponential smoothing    *)
(* avg*0.7 + sample*0.3 is exact for the sample values used.  The proxifly *)
(* score is kept in tenths (MIN_SCORE 0.5 is 5).  Remote answers (proxy    *)
(* list fetch, probe results, account API answers) are inputs chosen by    *)
(* the environment.                                                        *)
(***************************************************************************)
EXTENDS Integers, Sequences, FiniteSets, TLC

VARIABLES
    proxies,            \* FreeProxyManager._proxies, in dict insertion order
    last_refresh,       \* FreeProxyManager._last_refresh
    initialized,        \* FreeProxyManager._initialized
    free_proxy_manager, \* ProxyManager._free_proxy_manager is set
    free_proxy_enabled, \* ProxyManager._free_proxy_enabled
    proxy_config,       \* db: global proxy configuration
    tokens,             \* db: tokens table, id -> row
    token_stats,        \* db: token_stats table, id -> row
    now,                \* wall clock, seconds
    ret,                \* what the last completed call did and returned
    calls,              \* the bind calls in flight, task -> frame
    overlapped          \* history: some bind call started while another was in flight

poolVars == <<proxies, last_refresh, initialized>>
dbVars == <<proxy_config, tokens, token_stats>>
routerVars == <<free_proxy_manager, free_proxy_enabled>>
vars == <<proxies, last_refresh, initialized, free_proxy_manager, free_proxy_enabled, proxy_config,
          tokens, token_stats, now, ret, calls, overlapped>>

----------------------------------------------------------------------------
(* Values *)

None == "None"
NoTime == -1
NoId == 0

REFRESH_INTERVAL == 300
MIN_SCORE == 5
FAILURE_THRESHOLD == 3
DEFAULT_MAX_ATTEMPTS == 10
TicksPerSec == 10 * 1000
PREFERRED_ANONYMITY == {"anonymous", "elite"}
ALLOWED_PROTOCOLS == {"socks5"}

Min(a, b) == IF a < b THEN a ELSE b

\* f"{protocol}://{ip}:{port}" for the addresses the feeds use (port 1080)
ProxyUrl(protocol, ip, port) ==
    CASE protocol = "socks5" /\ ip = "a" -> "socks5://a:1080"
      [] protocol = "socks5" /\ ip = "b" -> "socks5://b:1080"
      [] protocol = "socks5" /\ ip = "c" -> "socks5://c:1080"
      [] protocol = "http" /\ ip = "a" -> "http://a:1080"
      [] protocol = "http" /\ ip = "b" -> "http://b:1080"
      [] OTHER -> "http://c:1080"

PoolUrls == {"socks5://a:1080", "socks5://b:1080", "socks5://c:1080"}
GlobalUrl == "http://global:8080"
OperatorUrl == "http://operator:3128"

----------------------------------------------------------------------------
(* ProxyInfo and the pool *)

NewProxyInfo(url, d) ==
    [url |-> url, anonymity |-> d.anonymity, score |-> d.score,
     success_count |-> 0, failure_count |-> 0,
     last_used |-> NoTime, last_success |-> NoTime, last_failure |-> NoTime,
     avg_response_time |-> 0, is_healthy |-> TRUE]

\* health_score as a fraction HealthNum / (10^6 * HealthTot)
HealthTot(p) ==
    IF p.success_count + p.failure_count = 0 THEN 1
    ELSE p.success_count + p.failure_count

\* a health_score whose speed term grows with the response time
HealthNumRewardsSlow(p) ==
    IF p.success_count + p.failure_count = 0
    THEN p.score * 100000
    ELSE LET total == p.success_count + p.failure_count
             capped == Min(10 * TicksPerSec, p.avg_response_time)
         IN  7000000 * p.success_count + 3000000 * total + 9 * capped * total

HealthNum(p) ==
    IF p.success_count + p.failure_count = 0
    THEN p.score * 100000
    ELSE LET total == p.success_count + p.failure_count
             capped == Min(10 * TicksPerSec, p.avg_response_time)
         IN  \* (success_rate*0.7 + (1 - min(1, avg/10)*0.3)*0.3) * 10
             7000000 * p.success_count + 3000000 * total - 9 * capped * total

HealthGreater(p, q) == HealthNum(p) * HealthTot(q) > HealthNum(q) * HealthTot(p)
Preferred(p) == p.anonymity \in PREFERRED_ANONYMITY

\* the sort key (anonymity in PREFERRED_ANONYMITY, health_score), compared as tuples
KeyGreater(p, q) ==
    \/ Preferred(p) /\ ~Preferred(q)
    \/ Preferred(p) = Preferred(q) /\ HealthGreater(p, q)

\* list.sort(key=..., reverse=True): descending, equal keys keep their order
RECURSIVE InsertDesc(_, _)
InsertDesc(sorted, p) ==
    IF sorted = <<>> THEN <<p>>
    ELSE IF KeyGreater(p, Head(sorted)) THEN <<p>> \o sorted
    ELSE <<Head(sorted)>> \o InsertDesc(Tail(sorted), p)

RECURSIVE SortDesc(_)
SortDesc(s) ==
    IF s = <<>> THEN <<>>
    ELSE InsertDesc(SortDesc(SubSeq(s, 1, Len(s) - 1)), s[Len(s)])

\* a _get_healthy_proxies that sorts every record, healthy or not
GetEveryProxy(pool) == SortDesc(pool)

GetHealthyProxies(pool) ==
    SortDesc(SelectSeq(pool, LAMBDA p : p.is_healthy))

UrlsOf(pool) == {pool[i].url : i \in 1..Len(pool)}
InPool(pool, url) == url \in UrlsOf(pool)
IndexOf(pool, url) == CHOOSE i \in 1..Len(pool) : pool[i].url = url
Lookup(pool, url) == pool[IndexOf(pool, url)]

\* new_proxies[url] = rec on a dict: replace in place, or append
Put(pool, url, rec) ==
    IF InPool(pool, url)
    THEN [pool EXCEPT ![IndexOf(pool, url)] = rec]
    ELSE Append(pool, rec)

FirstNotIn(pool, exclude) ==
    LET ok == SelectSeq(pool, LAMBDA p : p.url \notin exclude)
    IN IF ok = <<>> THEN None ELSE ok[1].url

\* get_best_proxy that gives up when every healthy proxy is excluded
GetBestHealthyProxy(pool, exclude) == FirstNotIn(GetHealthyProxies(pool), exclude)

\* get_best_proxy after _ensure_fresh_proxies
GetBestProxy(pool, exclude) ==
    LET best == FirstNotIn(GetHealthyProxies(pool), exclude)
    IN IF best # None THEN best ELSE FirstNotIn(pool, exclude)

ReportSuccess(pool, url, response_time, t) ==
    IF ~InPool(pool, url) THEN pool
    ELSE LET p == Lookup(pool, url)
         IN Put(pool, url,
                [p EXCEPT !.success_count = @ + 1,
                          !.last_used = t,
                          !.last_success = t,
                          !.is_healthy = TRUE,
                          !.avg_response_time =
                              IF @ = 0 THEN response_time
                              ELSE (@ * 7 + response_time * 3) \div 10])

\* a report_failure that looks at the failure count alone
ReportFailureCountOnly(pool, url, t) ==
    IF ~InPool(pool, url) THEN pool
    ELSE LET p == Lookup(pool, url)
             fc == p.failure_count + 1
         IN Put(pool, url,
                [p EXCEPT !.failure_count = fc,
                          !.last_used = t,
                          !.last_failure = t,
                          !.is_healthy = IF fc >= FAILURE_THRESHOLD THEN FALSE ELSE @])

\* a report_failure that opens a record for a url the pool does not hold
ReportFailureDefaulting(pool, url, t) ==
    LET known == IF InPool(pool, url) THEN pool
                 ELSE Append(pool, NewProxyInfo(url, [anonymity |-> "unknown", score |-> 0]))
        p == Lookup(known, url)
        fc == p.failure_count + 1
        unhealthy ==
            /\ fc >= FAILURE_THRESHOLD
            /\ \/ p.success_count = 0
               \/ 2 * fc > p.success_count + fc
    IN Put(known, url,
           [p EXCEPT !.failure_count = fc,
                     !.last_used = t,
                     !.last_failure = t,
                     !.is_healthy = IF unhealthy THEN FALSE ELSE @])

ReportFailure(pool, url, t) ==
    IF ~InPool(pool, url) THEN pool
    ELSE LET p == Lookup(pool, url)
             fc == p.failure_count + 1
             unhealthy ==
                 /\ fc >= FAILURE_THRESHOLD
                 /\ \/ p.success_count = 0
                    \/ 2 * fc > p.success_count + fc
         IN Put(pool, url,
                [p EXCEPT !.failure_count = fc,
                          !.last_used = t,
                          !.last_failure = t,
                          !.is_healthy = IF unhealthy THEN FALSE ELSE @])

\* a refresh loop that builds a new record for every entry, known or not
RECURSIVE ParseProxiesFresh(_, _)
ParseProxiesFresh(data, s) ==
    IF data = <<>> THEN s
    ELSE LET d == Head(data)
         IN IF \/ d.score < MIN_SCORE
               \/ d.ip = "" \/ d.port = 0
               \/ d.protocol \notin ALLOWED_PROTOCOLS
            THEN ParseProxiesFresh(Tail(data), s)
            ELSE LET url == ProxyUrl(d.protocol, d.ip, d.port)
                 IN ParseProxiesFresh(Tail(data),
                        [old |-> s.old, new |-> Put(s.new, url, NewProxyInfo(url, d))])

\* the loop of _refresh_proxy_list over the fetched entries; s = [old, new]:
\* `existing.score = score` writes through to the record of the old pool
RECURSIVE ParseProxies(_, _)
ParseProxies(data, s) ==
    IF data = <<>> THEN s
    ELSE LET d == Head(data)
         IN IF \/ d.score < MIN_SCORE
               \/ d.ip = "" \/ d.port = 0
               \/ d.protocol \notin ALLOWED_PROTOCOLS
            THEN ParseProxies(Tail(data), s)
            ELSE LET url == ProxyUrl(d.protocol, d.ip, d.port)
                 IN IF InPool(s.old, url)
                    THEN LET existing == [Lookup(s.old, url) EXCEPT !.score = d.score]
                         IN ParseProxies(Tail(data),
                                [old |-> Put(s.old, url, existing),
                                 new |-> Put(s.new, url, existing)])
                    ELSE ParseProxies(Tail(data),
                                [old |-> s.old,
                                 new |-> Put(s.new, url, NewProxyInfo(url, d))])

\* a refresh that adds the fetched entries to the pool it had
RefreshProxyListMerges(p, fetch, t) ==
    IF ~fetch.ok THEN p
    ELSE [proxies |-> ParseProxies(fetch.data, [old |-> p.proxies, new |-> p.proxies]).new,
          last_refresh |-> t]

\* a refresh that empties the pool when the fetch fails
RefreshProxyListClears(p, fetch, t) ==
    IF ~fetch.ok THEN [proxies |-> <<>>, last_refresh |-> p.last_refresh]
    ELSE [proxies |-> ParseProxies(fetch.data, [old |-> p.proxies, new |-> <<>>]).new,
          last_refresh |-> t]

\* _refresh_proxy_list: p = [proxies, last_refresh]; fetch = [ok, data]
RefreshProxyList(p, fetch, t) ==
    IF ~fetch.ok THEN p
    ELSE [proxies |-> ParseProxies(fetch.data, [old |-> p.proxies, new |-> <<>>]).new,
          last_refresh |-> t]

\* a refresh test that finds the list stale after a third of the interval
NeedsRefreshEarly(lastRefresh, t) ==
    lastRefresh = NoTime \/ t - lastRefresh > REFRESH_INTERVAL \div 3

NeedsRefresh(lastRefresh, t) ==
    lastRefresh = NoTime \/ t - lastRefresh > REFRESH_INTERVAL

\* _ensure_fresh_proxies
EnsureFreshProxies(p, fetch, t) ==
    IF NeedsRefresh(p.last_refresh, t) THEN RefreshProxyList(p, fetch, t) ELSE p

\* HealthCheckProxy that takes any answer at all for a working proxy
HealthCheckProxyAnyStatus(pool, url, answer, t) ==
    IF answer.status # 0
    THEN [proxies |-> ReportSuccess(pool, url, answer.time, t), working |-> TRUE]
    ELSE [proxies |-> ReportFailure(pool, url, t), working |-> FALSE]

\* health_check_proxy: answer = [status, time]; status 0 is a transport exception
HealthCheckProxy(pool, url, answer, t) ==
    IF answer.status = 200
    THEN [proxies |-> ReportSuccess(pool, url, answer.time, t), working |-> TRUE]
    ELSE [proxies |-> ReportFailure(pool, url, t), working |-> FALSE]

----------------------------------------------------------------------------
(* Storage (the Database collaborator) *)

\* db.update_token(token_id, proxy_url=url): an UPDATE of the row, if there is one
DbSetProxy(toks, token_id, url) ==
    IF token_id \in DOMAIN toks THEN [toks EXCEPT ![token_id].proxy_url = url] ELSE toks

\* UsedProxies with the test on the id inverted: collects the token's own proxy
UsedProxiesOwn(toks, token_id) ==
    {toks[i].proxy_url : i \in {j \in DOMAIN toks : j = token_id /\ toks[j].proxy_url # None}}

\* the proxies bound to other tokens, as bind_proxy_to_token collects them
UsedProxies(toks, token_id) ==
    {toks[i].proxy_url : i \in {j \in DOMAIN toks : j # token_id /\ toks[j].proxy_url # None}}

----------------------------------------------------------------------------
(* ProxyBinder, each call run to completion against one storage snapshot *)

\* the loop of bind_proxy_to_token without its count of attempts
RECURSIVE BindLoopUncounted(_, _, _, _)
BindLoopUncounted(s, max_attempts, env, t) ==
    LET fresh == EnsureFreshProxies(
                     [proxies |-> s.proxies, last_refresh |-> s.last_refresh],
                     env.fetch, t)
        proxy_url == GetBestProxy(fresh.proxies, s.tried)
    IN IF proxy_url = None
       THEN [s EXCEPT !.proxies = fresh.proxies, !.last_refresh = fresh.last_refresh]
       ELSE LET check == HealthCheckProxy(fresh.proxies, proxy_url,
                                          env.resp[proxy_url], t)
                s2 == [proxies |-> check.proxies,
                       last_refresh |-> fresh.last_refresh,
                       tried |-> s.tried \cup {proxy_url},
                       attempts |-> s.attempts,
                       probed |-> Append(s.probed, proxy_url),
                       url |-> None]
            IN IF check.working
               THEN [s2 EXCEPT !.url = proxy_url]
               ELSE BindLoopUncounted(s2, max_attempts, env, t)

\* the while loop of bind_proxy_to_token; s = [proxies, last_refresh, tried,
\* attempts, probed, url]; env = [fetch, resp]
RECURSIVE BindLoop(_, _, _, _)
BindLoop(s, max_attempts, env, t) ==
    IF s.attempts >= max_attempts THEN s
    ELSE LET fresh == EnsureFreshProxies(
                          [proxies |-> s.proxies, last_refresh |-> s.last_refresh],
                          env.fetch, t)
             proxy_url == GetBestProxy(fresh.proxies, s.tried)
         IN IF proxy_url = None
            THEN [s EXCEPT !.proxies = fresh.proxies, !.last_refresh = fresh.last_refresh]
            ELSE LET check == HealthCheckProxy(fresh.proxies, proxy_url,
                                               env.resp[proxy_url], t)
                     s2 == [proxies |-> check.proxies,
                            last_refresh |-> fresh.last_refresh,
                            tried |-> s.tried \cup {proxy_url},
                            attempts |-> s.attempts + 1,
                            probed |-> Append(s.probed, proxy_url),
                            url |-> None]
                 IN IF check.working
                    THEN [s2 EXCEPT !.url = proxy_url]
                    ELSE BindLoop(s2, max_attempts, env, t)

\* a bind that clears the credential's binding when it finds no working proxy
BindProxyOrUnbind(p, toks, token_id, exclude_urls, max_attempts, env, t) ==
    LET used_proxies == UsedProxies(toks, token_id)
        all_excluded == used_proxies \cup exclude_urls
        r == BindLoop([proxies |-> p.proxies, last_refresh |-> p.last_refresh,
                       tried |-> all_excluded, attempts |-> 0,
                       probed |-> <<>>, url |-> None],
                      max_attempts, env, t)
    IN [proxies |-> r.proxies, last_refresh |-> r.last_refresh,
        tokens |-> DbSetProxy(toks, token_id, r.url),
        url |-> r.url,
        bound |-> r.url,
        used |-> used_proxies,
        excluded |-> all_excluded,
        probed |-> r.probed,
        entry |-> p.proxies]

\* bind_proxy_to_token; p = [proxies, last_refresh]; the result carries the new
\* pool, the new tokens table, the returned url and what the call did
BindProxyToToken(p, toks, token_id, exclude_urls, max_attempts, env, t) ==
    LET used_proxies == UsedProxies(toks, token_id)
        all_excluded == used_proxies \cup exclude_urls
        r == BindLoop([proxies |-> p.proxies, last_refresh |-> p.last_refresh,
                       tried |-> all_excluded, attempts |-> 0,
                       probed |-> <<>>, url |-> None],
                      max_attempts, env, t)
    IN [proxies |-> r.proxies, last_refresh |-> r.last_refresh,
        tokens |-> IF r.url # None THEN DbSetProxy(toks, token_id, r.url) ELSE toks,
        url |-> r.url,
        bound |-> r.url,
        used |-> used_proxies,
        excluded |-> all_excluded,
        probed |-> r.probed,
        entry |-> p.proxies]

\* rebind_proxy_on_failure with the report made after the bind
RebindThenReport(p, toks, token_id, failed_proxy_url, env, t) ==
    LET r == BindProxyToToken(p, toks, token_id, {failed_proxy_url},
                              DEFAULT_MAX_ATTEMPTS, env, t)
    IN [r EXCEPT !.proxies = ReportFailure(r.proxies, failed_proxy_url, t)]

\* rebind_proxy_on_failure
RebindProxyOnFailure(p, toks, token_id, failed_proxy_url, env, t) ==
    BindProxyToToken([p EXCEPT !.proxies = ReportFailure(p.proxies, failed_proxy_url, t)],
                     toks, token_id, {failed_proxy_url}, DEFAULT_MAX_ATTEMPTS, env, t)

\* the tasks of find_fastest_working_proxy, every one run: each reports its result
RECURSIVE TestAll(_, _, _, _)
TestAll(pool, urls, env, t) ==
    IF urls = <<>> THEN pool
    ELSE TestAll(HealthCheckProxy(pool, Head(urls), env.resp[Head(urls)], t).proxies,
                 Tail(urls), env, t)

\* a choice that takes the first proxy that answered 200
RECURSIVE FirstWorking(_, _, _)
FirstWorking(urls, env, best) ==
    IF urls = <<>> THEN best
    ELSE IF env.resp[Head(urls)].status = 200 /\ best = None
         THEN FirstWorking(Tail(urls), env, Head(urls))
         ELSE FirstWorking(Tail(urls), env, best)

\* results.sort(key=response time)[0]: the first of the lowest response time
RECURSIVE Fastest(_, _, _)
Fastest(urls, env, best) ==
    IF urls = <<>> THEN best
    ELSE LET u == Head(urls)
             a == env.resp[u]
         IN IF a.status = 200 /\ (best = None \/ a.time < env.resp[best].time)
            THEN Fastest(Tail(urls), env, u)
            ELSE Fastest(Tail(urls), env, best)

MAX_TEST == 100

\* find_fastest_working_proxy; the result carries the pool and the winner
FindFastestWorkingProxy(p, exclude_urls, max_test, env, t) ==
    LET fresh == EnsureFreshProxies(p, env.fetch, t)
        cands == SelectSeq(GetHealthyProxies(fresh.proxies),
                           LAMBDA q : q.url \notin exclude_urls)
        head == SubSeq(cands, 1, Min(max_test, Len(cands)))
        proxies_to_test == [i \in 1..Len(head) |-> head[i].url]
        winner == Fastest(proxies_to_test, env, None)
    IN [proxies |-> TestAll(fresh.proxies, proxies_to_test, env, t),
        last_refresh |-> fresh.last_refresh,
        url |-> winner,
        response_time |-> IF winner = None THEN 0 ELSE env.resp[winner].time,
        probed |-> proxies_to_test]

\* bind_fastest_proxy_to_token
BindFastestProxyToToken(p, toks, token_id, env, t) ==
    LET used_proxies == UsedProxies(toks, token_id)
        r == FindFastestWorkingProxy(p, used_proxies, MAX_TEST, env, t)
    IN [proxies |-> r.proxies, last_refresh |-> r.last_refresh,
        tokens |-> IF r.url # None THEN DbSetProxy(toks, token_id, r.url) ELSE toks,
        url |-> r.url,
        bound |-> r.url,
        used |-> used_proxies,
        excluded |-> used_proxies,
        probed |-> r.probed,
        entry |-> p.proxies]

----------------------------------------------------------------------------
(* ProxyRouter *)

\* FreeProxyManager.initialize; p = [proxies, last_refresh, initialized]
Initialize(p, fetch, t) ==
    IF p.initialized THEN p
    ELSE LET r == RefreshProxyList([proxies |-> p.proxies, last_refresh |-> p.last_refresh],
                                   fetch, t)
         IN [proxies |-> r.proxies, last_refresh |-> r.last_refresh, initialized |-> TRUE]

\* the free-pool branch of get_proxy_url: initialize the pool if needed, then
\* bind_proxy_to_token; the value is computed once and handed on
GetProxyUrlBind(p, toks, token_id, env, t) ==
    CHOOSE after \in
        { [proxies |-> b.proxies, last_refresh |-> b.last_refresh,
           initialized |-> TRUE, tokens |-> b.tokens,
           bind_started |-> TRUE, bound |-> b.bound, probed |-> b.probed] :
            b \in { BindProxyToToken([proxies |-> i.proxies, last_refresh |-> i.last_refresh],
                                     toks, token_id, {}, DEFAULT_MAX_ATTEMPTS, env, t) :
                       i \in {Initialize(p, env.fetch, t)} } } : TRUE

\* a failed bind ending the call with (None, None), the global proxy not tried
BoundOrNone(after, global) ==
    IF after.bound # None
    THEN after @@ [url |-> after.bound, action |-> "bound"]
    ELSE after @@ [url |-> None, action |-> None]

\* if proxy_url: return proxy_url, "bound"; otherwise on to the global proxy
BoundOrGlobal(after, global) ==
    IF after.bound # None
    THEN after @@ [url |-> after.bound, action |-> "bound"]
    ELSE after @@ global

\* get_proxy_url; p = [proxies, last_refresh, initialized]
GetProxyUrl(p, toks, enabled, config, token_id, proxy_url, env, t) ==
    LET same == [proxies |-> p.proxies, last_refresh |-> p.last_refresh,
                 initialized |-> p.initialized, tokens |-> toks,
                 bind_started |-> FALSE, bound |-> None, probed |-> <<>>]
        global == IF config.proxy_enabled /\ config.proxy_url # None
                  THEN [url |-> config.proxy_url, action |-> "global"]
                  ELSE [url |-> None, action |-> None]
    IN IF proxy_url # None
       THEN same @@ [url |-> proxy_url, action |-> None]
       ELSE IF token_id # NoId /\ token_id \in DOMAIN toks /\ toks[token_id].proxy_url # None
       THEN same @@ [url |-> toks[token_id].proxy_url, action |-> None]
       ELSE IF token_id # NoId /\ token_id \in DOMAIN toks /\ enabled
       THEN BoundOrGlobal(GetProxyUrlBind(p, toks, token_id, env, t), global)
       ELSE same @@ global

\* report_proxy_failure
ReportProxyFailure(p, toks, attached, token_id, env, t) ==
    LET same == [proxies |-> p.proxies, last_refresh |-> p.last_refresh, tokens |-> toks,
                 url |-> None, bound |-> None, probed |-> <<>>, rebind_started |-> FALSE]
    IN IF ~attached \/ token_id = NoId THEN same
       ELSE IF token_id \notin DOMAIN toks \/ toks[token_id].proxy_url = None THEN same
       ELSE IF InPool(p.proxies, toks[token_id].proxy_url)
       THEN LET b == RebindProxyOnFailure(p, toks, token_id, toks[token_id].proxy_url, env, t)
            IN [proxies |-> b.proxies, last_refresh |-> b.last_refresh, tokens |-> b.tokens,
                url |-> b.url, bound |-> b.bound, probed |-> b.probed,
                rebind_started |-> TRUE]
       ELSE same

\* report_proxy_success
ReportProxySuccess(pool, toks, attached, token_id, response_time, t) ==
    IF ~attached \/ token_id = NoId THEN pool
    ELSE IF token_id \in DOMAIN toks /\ toks[token_id].proxy_url # None
    THEN ReportSuccess(pool, toks[token_id].proxy_url, response_time, t)
    ELSE pool

----------------------------------------------------------------------------
(* Bounds and inputs *)

StartTime == 100 * 1000  \* the clock at start, seconds
MaxTicks == 1            \* clock steps taken
MaxReports == 3          \* health reports the pool may hold before calls stop
MaxRouteReports == 2     \* the same, for the calls through the router
MaxCalls == 1            \* token handler calls made in a run
MaxPoolReports == 6      \* report_success and report_failure calls made on the pool alone
MaxErrors == 4           \* errors recorded for a token before record_error stops
ErrorBanThreshold == 3   \* admin_config.error_ban_threshold, set by the operator

TokenIds == {1, 2}       \* rows of the tokens table
MissingId == 3           \* an id with no row
CallIds == TokenIds \cup {MissingId, NoId}

Entry(protocol, ip, port, score, anonymity) ==
    [protocol |-> protocol, ip |-> ip, port |-> port, score |-> score,
     anonymity |-> anonymity]

\* two answers of the proxy list source; the second no longer lists a, and both
\* hold entries the filters drop
Feed1 ==
    << Entry("socks5", "a", 1080, 10, "elite"),
       Entry("socks5", "b", 1080, 20, "transparent"),
       Entry("http", "c", 1080, 30, "elite"),
       Entry("socks5", "c", 1080, 4, "elite") >>
Feed2 ==
    << Entry("socks5", "b", 1080, 10, "transparent"),
       Entry("socks5", "c", 1080, 10, "anonymous"),
       Entry("socks5", "a", 0, 30, "elite") >>

FetchFailed == [ok |-> FALSE, data |-> <<>>]
\* a non-200 answer: its body is not read
FetchRefused == [ok |-> FALSE, data |-> Feed1]
Fetches == {FetchFailed, [ok |-> TRUE, data |-> Feed1], [ok |-> TRUE, data |-> Feed2]}

Answer(status, time) == [status |-> status, time |-> time]
Fast == Answer(200, TicksPerSec \div 5)       \* 200 in 0.2 s
Refused == Answer(503, TicksPerSec \div 10)   \* another status
Slow == Answer(200, TicksPerSec \div 2)       \* 200 in 0.5 s
TimedOut == Answer(0, 0)                      \* transport exception

BindEnvs == [fetch : Fetches, resp : [PoolUrls -> {Fast, Refused}]]

\* the router's calls see: no proxy answering, every proxy answering, only b, only c
RouteEnvs ==
    [fetch : Fetches,
     resp : {[u \in PoolUrls |-> IF u \in w THEN Fast ELSE Refused] :
                w \in {{}, PoolUrls, {"socks5://b:1080"}, {"socks5://c:1080"}}}]

TokenRow(proxy_url) ==
    [token |-> "at0", st |-> None, rt |-> None, proxy_url |-> proxy_url,
     expiry_time |-> NoTime, is_active |-> TRUE, is_expired |-> FALSE,
     plan |-> None, is_phone_verified |-> None,
     sora2_supported |-> FALSE, sora2_invite |-> None,
     sora2_remaining_count |-> 0, sora2_cooldown_until |-> NoTime]

StatsRow == [error_count |-> 0, consecutive_error_count |-> 0]

\* what a completed call leaves in ret
RetNone ==
    [op |-> "none", token_id |-> NoId, explicit |-> None,
     url |-> None, action |-> None, bound |-> None, started |-> FALSE,
     used |-> {}, excluded |-> {}, probed |-> <<>>, working |-> {},
     max_attempts |-> 0, pre_proxy |-> None, pre_exists |-> FALSE,
     pre_routing |-> FALSE,
     pre_config |-> [proxy_enabled |-> FALSE, proxy_url |-> None],
     valid |-> FALSE, message |-> None, pre_row |-> TokenRow(None),
     pre_stats |-> StatsRow, exchanges |-> <<>>, me |-> None, is_overload |-> FALSE,
     is_video |-> FALSE, queried |-> FALSE, remaining_count |-> 0, reset_seconds |-> 0,
     pre_pool |-> <<>>, pre_last_refresh |-> NoTime, fetch |-> FetchFailed,
     fetched |-> FALSE, ensure_time |-> NoTime, ensure_fetched |-> FALSE,
     ensure_ok |-> FALSE, prev_time |-> NoTime, prev_fetched |-> FALSE,
     prev_ok |-> FALSE, resp |-> [u \in PoolUrls |-> Refused], response_time |-> 0,
     status |-> 0, request |-> None, username_attempts |-> 0, since_success |-> 0,
     order |-> None, healthy |-> <<>>, max_concurrent |-> 0,
     max_test |-> 0, exclude_urls |-> {}, entry_pool |-> <<>>,
     proxy |-> [set |-> FALSE, value |-> <<>>], after_failed |-> None,
     time |-> NoTime, seq |-> 0]

\* the probed urls whose probe answered 200
Working(probed, env) == {u \in {probed[i] : i \in 1..Len(probed)} : env.resp[u].status = 200}

ProxyOf(toks, token_id) ==
    IF token_id \in DOMAIN toks THEN toks[token_id].proxy_url ELSE None

\* a bind call in flight: where it is, its arguments and its locals
NoFrame == [pc |-> "idle", op |-> "none", token_id |-> NoId, exclude |-> {},
            used |-> {}, tried |-> {}, attempts |-> 0, proxy_url |-> None]

RECURSIVE Reports(_)
Reports(pool) ==
    IF pool = <<>> THEN 0
    ELSE Head(pool).success_count + Head(pool).failure_count + Reports(Tail(pool))

Budget == Reports(proxies) < MaxReports
RouteBudget == Reports(proxies) < MaxRouteReports

\* the fetch answer is read only when a refresh is due
FetchRead(env) == env.fetch = FetchFailed \/ NeedsRefresh(last_refresh, now)

Pool == [proxies |-> proxies, last_refresh |-> last_refresh]
PoolI == [proxies |-> proxies, last_refresh |-> last_refresh, initialized |-> initialized]

----------------------------------------------------------------------------------------------------------------------------------------
(* The binder, calls run one at a time *)

InitPool ==
    /\ proxies = <<>>
    /\ last_refresh = NoTime
    /\ initialized = FALSE

InitBind ==
    /\ InitPool
    /\ free_proxy_manager = TRUE
    /\ free_proxy_enabled = TRUE
    /\ proxy_config = [proxy_enabled |-> FALSE, proxy_url |-> None]
    /\ \E u1 \in {None, OperatorUrl}, u2 \in {None, "socks5://a:1080"} :
          tokens = [i \in TokenIds |-> TokenRow(IF i = 1 THEN u1 ELSE u2)]
    /\ token_stats = [i \in TokenIds |-> StatsRow]
    /\ now = StartTime
    /\ ret = RetNone
    /\ calls = <<>>
    /\ overlapped = FALSE

\* the clock moves on past the pool's refresh interval
Tick ==
    /\ now < StartTime + MaxTicks * (REFRESH_INTERVAL + 1)
    /\ now' = now + REFRESH_INTERVAL + 1
    /\ UNCHANGED <<poolVars, routerVars, dbVars, ret, calls, overlapped>>

BinderRet(op, token_id, r, env) ==
    [RetNone EXCEPT !.op = op, !.token_id = token_id,
                    !.url = r.url, !.bound = r.bound, !.used = r.used,
                    !.excluded = r.excluded, !.probed = r.probed,
                    !.working = Working(r.probed, env), !.started = TRUE,
                    !.pre_proxy = ProxyOf(tokens, token_id),
                    !.pre_exists = token_id \in DOMAIN tokens,
                    !.pre_pool = proxies, !.entry_pool = r.entry]

CallBindProxyToToken(token_id, exclude_urls, max_attempts, env) ==
    /\ Budget /\ FetchRead(env)
    /\ \E r \in {BindProxyToToken(Pool, tokens, token_id, exclude_urls, max_attempts, env, now)} :
          /\ proxies' = r.proxies
          /\ last_refresh' = r.last_refresh
          /\ tokens' = r.tokens
          /\ ret' = [BinderRet("bind_proxy_to_token", token_id, r, env)
                         EXCEPT !.max_attempts = max_attempts,
                                !.exclude_urls = exclude_urls]
    /\ UNCHANGED <<initialized, routerVars, proxy_config, token_stats, now, calls, overlapped>>

CallRebindProxyOnFailure(token_id, failed_proxy_url, env) ==
    /\ Budget /\ FetchRead(env)
    /\ \E r \in {RebindProxyOnFailure(Pool, tokens, token_id, failed_proxy_url, env, now)} :
          /\ proxies' = r.proxies
          /\ last_refresh' = r.last_refresh
          /\ tokens' = r.tokens
          /\ ret' = [BinderRet("rebind_proxy_on_failure", token_id, r, env)
                         EXCEPT !.explicit = failed_proxy_url,
                                !.max_attempts = DEFAULT_MAX_ATTEMPTS]
    /\ UNCHANGED <<initialized, routerVars, proxy_config, token_stats, now, calls, overlapped>>

CallBindFastestProxyToToken(token_id, env) ==
    /\ Budget /\ FetchRead(env)
    /\ \E r \in {BindFastestProxyToToken(Pool, tokens, token_id, env, now)} :
          /\ proxies' = r.proxies
          /\ last_refresh' = r.last_refresh
          /\ tokens' = r.tokens
          /\ ret' = BinderRet("bind_fastest_proxy_to_token", token_id, r, env)
    /\ UNCHANGED <<initialized, routerVars, proxy_config, token_stats, now, calls, overlapped>>

\* the arguments of the direct bind calls: token id, exclude_urls, max_attempts
BindArgs ==
    { <<1, {}, DEFAULT_MAX_ATTEMPTS>>, <<1, {"socks5://b:1080"}, 1>>,
      <<2, {}, DEFAULT_MAX_ATTEMPTS>>, <<2, {}, 1>>,
      <<MissingId, {}, DEFAULT_MAX_ATTEMPTS>> }

NextBind ==
    \/ \E a \in BindArgs, env \in BindEnvs :
          CallBindProxyToToken(a[1], a[2], a[3], env)
    \/ \E id \in TokenIds, u \in {"socks5://a:1080", "socks5://b:1080"}, env \in BindEnvs :
          CallRebindProxyOnFailure(id, u, env)
    \/ \E id \in TokenIds, env \in BindEnvs : CallBindFastestProxyToToken(id, env)

SpecBind == InitBind /\ [][NextBind]_vars

BinderOps == {"bind_proxy_to_token", "rebind_proxy_on_failure", "bind_fastest_proxy_to_token"}

\* C1: a bind call for credential c (bind_proxy_to_token, also through
\* rebind_proxy_on_failure, and bind_fastest_proxy_to_token), run against one
\* storage snapshot, never returns or persists a proxy url that the snapshot
\* shows bound to a credential other than c.  The rows of the other
\* credentials are the same before and after the call.
C1_NotBoundToOther ==
    ret.op \in BinderOps =>
        /\ ret.url \notin {tokens[j].proxy_url : j \in DOMAIN tokens \ {ret.token_id}}
                          \ {None}
        /\ \A j \in DOMAIN tokens \ {ret.token_id} :
               ProxyOf(tokens, ret.token_id) = None
               \/ ProxyOf(tokens, ret.token_id) = ret.pre_proxy
               \/ tokens[j].proxy_url # ProxyOf(tokens, ret.token_id)

\* C1 witness: a call returned a proxy while another credential holds a proxy of
\* the pool that is still healthy, so the exclusion decided the choice
C1_Witness ==
    /\ ret.op \in BinderOps
    /\ ret.url # None
    /\ \E j \in DOMAIN tokens \ {ret.token_id} :
          /\ InPool(proxies, tokens[j].proxy_url)
          /\ Lookup(proxies, tokens[j].proxy_url).is_healthy
          /\ KeyGreater(Lookup(proxies, tokens[j].proxy_url), Lookup(proxies, ret.url))

\* C2: bind_proxy_to_token returns a url only if that url's probe in this call
\* answered 200, the credential's row then holds exactly the returned url, and a
\* call that returns none leaves the credential's binding as it was
C2_BoundWasVerified ==
    ret.op = "bind_proxy_to_token" =>
        LET cur == ProxyOf(tokens, ret.token_id)
        IN /\ ret.url # None => ret.url \in ret.working /\ (ret.pre_exists => cur = ret.url)
           /\ ret.url = None => cur = ret.pre_proxy
           /\ cur # ret.pre_proxy => cur \in ret.working

\* C2 witness: a first candidate failed its probe, a later one passed and was bound
C2_Witness ==
    /\ ret.op = "bind_proxy_to_token"
    /\ ret.url # None
    /\ Len(ret.probed) >= 2
    /\ ret.pre_proxy # ret.url
    /\ tokens[ret.token_id].proxy_url = ret.url

----------------------------------------------------------------------------
(* The router in front of the binder, calls run one at a time *)

InitRoute ==
    /\ InitPool
    /\ free_proxy_manager = FALSE
    /\ free_proxy_enabled = FALSE
    /\ proxy_config = [proxy_enabled |-> FALSE, proxy_url |-> None]
    /\ \E u1 \in {None, OperatorUrl}, u2 \in {None, "socks5://a:1080"} :
          tokens = [i \in TokenIds |-> TokenRow(IF i = 1 THEN u1 ELSE u2)]
    /\ token_stats = [i \in TokenIds |-> StatsRow]
    /\ now = StartTime
    /\ ret = RetNone
    /\ calls = <<>>
    /\ overlapped = FALSE

\* set_free_proxy_manager, at start-up
SetFreeProxyManager(enabled) ==
    /\ ~free_proxy_manager
    /\ free_proxy_manager' = TRUE
    /\ free_proxy_enabled' = enabled
    /\ UNCHANGED <<poolVars, dbVars, now, ret, calls, overlapped>>

\* update_proxy_config
UpdateProxyConfig(enabled, proxy_url) ==
    /\ proxy_config' = [proxy_enabled |-> enabled, proxy_url |-> proxy_url]
    /\ UNCHANGED <<poolVars, routerVars, tokens, token_stats, now, ret, calls, overlapped>>

\* the last call was a report_proxy_failure whose rebind found no working proxy
FailedRebind == ret.op = "report_proxy_failure" /\ ret.started /\ ret.url = None

CallGetProxyUrl(token_id, proxy_url, env) ==
    /\ RouteBudget \/ ProxyOf(tokens, token_id) # None
    /\ FetchRead(env) \/ ~initialized
    /\ \E r \in {GetProxyUrl(PoolI, tokens, free_proxy_enabled /\ free_proxy_manager,
                            proxy_config, token_id, proxy_url, env, now)} :
          /\ proxies' = r.proxies
          /\ last_refresh' = r.last_refresh
          /\ initialized' = r.initialized
          /\ tokens' = r.tokens
          /\ ret' = [RetNone EXCEPT !.op = "get_proxy_url", !.token_id = token_id,
                         !.explicit = proxy_url,
                         !.url = r.url, !.action = r.action, !.bound = r.bound,
                         !.probed = r.probed, !.working = Working(r.probed, env),
                         !.started = r.bind_started,
                         !.pre_proxy = ProxyOf(tokens, token_id),
                         !.pre_exists = token_id \in DOMAIN tokens,
                         !.pre_routing = free_proxy_enabled /\ free_proxy_manager,
                         !.pre_config = proxy_config,
                         !.after_failed = IF FailedRebind /\ ret.token_id = token_id
                                          THEN ret.pre_proxy ELSE None]
    /\ UNCHANGED <<routerVars, proxy_config, token_stats, now, calls, overlapped>>

CallReportProxyFailure(token_id, env) ==
    /\ Budget /\ FetchRead(env)
    /\ \E r \in {ReportProxyFailure(Pool, tokens, free_proxy_manager, token_id, env, now)} :
          /\ proxies' = r.proxies
          /\ last_refresh' = r.last_refresh
          /\ tokens' = r.tokens
          /\ ret' = [RetNone EXCEPT !.op = "report_proxy_failure", !.token_id = token_id,
                         !.url = r.url, !.bound = r.bound, !.probed = r.probed,
                         !.working = Working(r.probed, env), !.started = r.rebind_started,
                         !.pre_proxy = ProxyOf(tokens, token_id),
                         !.pre_exists = token_id \in DOMAIN tokens,
                         !.pre_pool = proxies]
    /\ UNCHANGED <<initialized, routerVars, proxy_config, token_stats, now, calls, overlapped>>

CallReportProxySuccess(token_id, response_time) ==
    /\ Budget
    /\ proxies' = ReportProxySuccess(proxies, tokens, free_proxy_manager, token_id,
                                     response_time, now)
    /\ ret' = [RetNone EXCEPT !.op = "report_proxy_success", !.token_id = token_id,
                   !.pre_proxy = ProxyOf(tokens, token_id),
                   !.pre_exists = token_id \in DOMAIN tokens]
    /\ UNCHANGED <<last_refresh, initialized, routerVars, dbVars, now, calls, overlapped>>

NextRoute ==
    \/ \E enabled \in BOOLEAN : SetFreeProxyManager(enabled)
    \/ \E enabled \in BOOLEAN, u \in {None, GlobalUrl} : UpdateProxyConfig(enabled, u)
    \/ \E id \in CallIds, u \in {None, OperatorUrl}, env \in RouteEnvs :
          CallGetProxyUrl(id, u, env)

SpecRoute == InitRoute /\ [][NextRoute]_vars

GlobalFallback(url, action) ==
    IF ret.pre_config.proxy_enabled /\ ret.pre_config.proxy_url # None
    THEN url = ret.pre_config.proxy_url /\ action = "global"
    ELSE url = None /\ action = None

\* C4: get_proxy_url(token_id, proxy_url) answers by the first match of:
\* (1) proxy_url given: (proxy_url, none); (2) the credential exists and has a
\* bound proxy: (bound proxy, none); (3) it exists, has none, free-pool routing
\* is on and the bind finds a working proxy: (new proxy, "bound"), the new proxy
\* being the one now stored; (4) the global proxy is configured and enabled:
\* (global url, "global"); (5) (none, none).  A failed bind in (3) falls
\* through to (4), and (1) and (2) start no bind and probe nothing.
C4_ResolvePrecedence ==
    ret.op = "get_proxy_url" =>
        LET routing == ret.pre_routing
            cur == ProxyOf(tokens, ret.token_id)
        IN IF ret.explicit # None
           THEN ret.url = ret.explicit /\ ret.action = None
                /\ ~ret.started /\ ret.probed = <<>> /\ cur = ret.pre_proxy
           ELSE IF ret.pre_exists /\ ret.pre_proxy # None
           THEN ret.url = ret.pre_proxy /\ ret.action = None
                /\ ~ret.started /\ ret.probed = <<>> /\ cur = ret.pre_proxy
           ELSE IF ret.pre_exists /\ routing
           THEN /\ ret.started
                /\ IF ret.working # {}
                   THEN ret.url \in ret.working /\ ret.action = "bound" /\ cur = ret.url
                   ELSE cur = None /\ GlobalFallback(ret.url, ret.action)
           ELSE /\ ~ret.started /\ ret.probed = <<>> /\ cur = ret.pre_proxy
                /\ GlobalFallback(ret.url, ret.action)

\* C4 witness: an unbound credential, free-pool routing on, every probe of the
\* bind failed, and the call answered with the global proxy
C4_Witness ==
    /\ ret.op = "get_proxy_url"
    /\ ret.started
    /\ Len(ret.probed) >= 2
    /\ ret.working = {}
    /\ ret.url = GlobalUrl
    /\ ret.action = "global"

----------------------------------------------------------------------------
(* The binder under concurrent calls.  Task k binds for credential k; a call *)
(* is suspended at each await: reading the tokens, choosing a candidate      *)
(* (after the freshness check), probing it, writing the binding.             *)

Tasks == TokenIds

InitRace ==
    /\ InitPool
    /\ free_proxy_manager = TRUE
    /\ free_proxy_enabled = TRUE
    /\ proxy_config = [proxy_enabled |-> FALSE, proxy_url |-> None]
    /\ \E u1 \in {None, OperatorUrl}, u2 \in {None, "socks5://a:1080"} :
          tokens = [i \in TokenIds |-> TokenRow(IF i = 1 THEN u1 ELSE u2)]
    /\ token_stats = [i \in TokenIds |-> StatsRow]
    /\ now = StartTime
    /\ ret = RetNone
    /\ calls = [k \in Tasks |-> NoFrame]
    /\ overlapped = FALSE

Idle(k) == calls[k].pc = "idle"
OthersBusy(k) == \E j \in Tasks \ {k} : ~Idle(j)

Return(k, url) ==
    /\ calls' = [calls EXCEPT ![k] = NoFrame]
    /\ ret' = [RetNone EXCEPT !.op = calls[k].op, !.token_id = calls[k].token_id,
                   !.url = url, !.bound = url, !.used = calls[k].used, !.started = TRUE]

\* bind_proxy_to_token is called
StartBind(k) ==
    /\ Idle(k) /\ Budget
    /\ calls' = [calls EXCEPT ![k] = [NoFrame EXCEPT !.pc = "get_all_tokens",
                                         !.op = "bind_proxy_to_token", !.token_id = k]]
    /\ overlapped' = (overlapped \/ OthersBusy(k))
    /\ UNCHANGED <<poolVars, routerVars, dbVars, now, ret>>

\* rebind_proxy_on_failure is called: the failure is reported before the first await
StartRebind(k, failed_proxy_url) ==
    /\ Idle(k) /\ Budget
    /\ proxies' = ReportFailure(proxies, failed_proxy_url, now)
    /\ calls' = [calls EXCEPT ![k] = [NoFrame EXCEPT !.pc = "get_all_tokens",
                                         !.op = "rebind_proxy_on_failure", !.token_id = k,
                                         !.exclude = {failed_proxy_url}]]
    /\ overlapped' = (overlapped \/ OthersBusy(k))
    /\ UNCHANGED <<last_refresh, initialized, routerVars, dbVars, now, ret>>

\* bind_fastest_proxy_to_token is called
StartBindFastest(k) ==
    /\ Idle(k) /\ Budget
    /\ calls' = [calls EXCEPT ![k] = [NoFrame EXCEPT !.pc = "get_all_tokens",
                                         !.op = "bind_fastest_proxy_to_token",
                                         !.token_id = k]]
    /\ overlapped' = (overlapped \/ OthersBusy(k))
    /\ UNCHANGED <<poolVars, routerVars, dbVars, now, ret>>

\* all_tokens = await self.db.get_all_tokens(), and the used proxies taken from it
GetAllTokens(k) ==
    /\ calls[k].pc = "get_all_tokens"
    /\ LET used == UsedProxies(tokens, calls[k].token_id)
       IN calls' = [calls EXCEPT ![k].used = used,
                                 ![k].tried = used \cup calls[k].exclude,
                                 ![k].pc = IF calls[k].op = "bind_fastest_proxy_to_token"
                                           THEN "find_fastest" ELSE "get_best_proxy"]
    /\ UNCHANGED <<poolVars, routerVars, dbVars, now, ret, overlapped>>

\* the head of the while loop and await self.get_best_proxy(...)
GetBest(k, fetch) ==
    /\ calls[k].pc = "get_best_proxy"
    /\ fetch = FetchFailed \/ NeedsRefresh(last_refresh, now)
    /\ IF calls[k].attempts >= DEFAULT_MAX_ATTEMPTS
       THEN Return(k, None) /\ UNCHANGED <<poolVars>>
       ELSE \E fresh \in {EnsureFreshProxies(Pool, fetch, now)} :
            \E proxy_url \in {GetBestProxy(fresh.proxies, calls[k].tried)} :
               /\ proxies' = fresh.proxies
               /\ last_refresh' = fresh.last_refresh
               /\ UNCHANGED initialized
               /\ IF proxy_url = None
                  THEN Return(k, None)
                  ELSE /\ calls' = [calls EXCEPT ![k].tried = @ \cup {proxy_url},
                                                 ![k].attempts = @ + 1,
                                                 ![k].proxy_url = proxy_url,
                                                 ![k].pc = "health_check_proxy"]
                       /\ UNCHANGED ret
    /\ UNCHANGED <<routerVars, dbVars, now, overlapped>>

\* is_working = await self.health_check_proxy(proxy_url)
HealthCheck(k, answer) ==
    /\ calls[k].pc = "health_check_proxy"
    /\ \E check \in {HealthCheckProxy(proxies, calls[k].proxy_url, answer, now)} :
          /\ proxies' = check.proxies
          /\ calls' = [calls EXCEPT ![k].pc = IF check.working THEN "update_token"
                                              ELSE "get_best_proxy"]
    /\ UNCHANGED <<last_refresh, initialized, routerVars, dbVars, now, ret, overlapped>>

\* result = await self.find_fastest_working_proxy(exclude_urls=used_proxies, ...)
FindFastest(k, env) ==
    /\ calls[k].pc = "find_fastest"
    /\ FetchRead(env)
    /\ \E r \in {FindFastestWorkingProxy(Pool, calls[k].used, MAX_TEST, env, now)} :
          /\ proxies' = r.proxies
          /\ last_refresh' = r.last_refresh
          /\ IF r.url = None
             THEN Return(k, None)
             ELSE /\ calls' = [calls EXCEPT ![k].proxy_url = r.url, ![k].pc = "update_token"]
                  /\ UNCHANGED ret
    /\ UNCHANGED <<initialized, routerVars, dbVars, now, overlapped>>

\* await self.db.update_token(token_id, proxy_url=proxy_url) and the return
UpdateTokenProxy(k) ==
    /\ calls[k].pc = "update_token"
    /\ tokens' = DbSetProxy(tokens, calls[k].token_id, calls[k].proxy_url)
    /\ Return(k, calls[k].proxy_url)
    /\ UNCHANGED <<poolVars, routerVars, proxy_config, token_stats, now, overlapped>>

NextRace ==
    \/ \E k \in Tasks : StartBind(k)
    \/ \E k \in Tasks, u \in {"socks5://a:1080"} : StartRebind(k, u)
    \/ \E k \in Tasks : StartBindFastest(k)
    \/ \E k \in Tasks : GetAllTokens(k)
    \/ \E k \in Tasks, fetch \in Fetches : GetBest(k, fetch)
    \/ \E k \in Tasks, answer \in {Fast, Refused} : HealthCheck(k, answer)
    \/ \E k \in Tasks, env \in RouteEnvs : FindFastest(k, env)
    \/ \E k \in Tasks : UpdateTokenProxy(k)

SpecRace == InitRace /\ [][NextRace]_vars

NoSharedProxy ==
    \A i, j \in DOMAIN tokens :
        i # j /\ tokens[i].proxy_url # None => tokens[i].proxy_url # tokens[j].proxy_url

\* C3 as stated: after any interleaving of bind calls for distinct credentials
\* no proxy url is bound to two credentials
C3_Original == NoSharedProxy

\* C3 amended: as long as no bind call has started while another was in flight,
\* no proxy url is bound to two credentials
C3_NoSharedWhenSequential == ~overlapped => NoSharedProxy

\* C3 witness: two bind calls ran one after the other and both credentials now
\* hold a proxy of the pool
C3_Witness ==
    /\ ~overlapped
    /\ \A k \in Tasks : Idle(k)
    /\ ret.op \in BinderOps
    /\ \A i \in TokenIds : InPool(proxies, tokens[i].proxy_url)
    /\ tokens[1].proxy_url # OperatorUrl

----------------------------------------------------------------------------
(* TokenManager.  The remote API's answers are inputs; the Database calls    *)
(* are modelled by what the handlers rely on: update_token writes the fields *)
(* it is given and leaves a field passed as None as it is.                   *)

Day == 24 * 3600

\* access tokens the exchanges may return, and what decode_jwt finds in them:
\* ok is FALSE when decoding raises, exp is NoTime when the payload has no "exp"
DecodeJwt(access_token) ==
    CASE access_token = "at_new"  -> [ok |-> TRUE, exp |-> StartTime + 10 * Day]
      [] access_token = "at_rt"   -> [ok |-> TRUE, exp |-> StartTime + 20 * Day]
      [] access_token = "at_old"  -> [ok |-> TRUE, exp |-> StartTime - 3600]
      [] access_token = "at_noexp" -> [ok |-> TRUE, exp |-> NoTime]
      [] OTHER                    -> [ok |-> FALSE, exp |-> NoTime]

\* db.update_token(token_id, token=, st=, rt=, expiry_time=, plan_type=)
DbUpdateToken(toks, token_id, token, st, rt, expiry_time, plan) ==
    IF token_id \notin DOMAIN toks THEN toks
    ELSE [toks EXCEPT ![token_id] =
             [@ EXCEPT !.token = IF token # None THEN token ELSE @,
                       !.st = IF st # None THEN st ELSE @,
                       !.rt = IF rt # None THEN rt ELSE @,
                       !.expiry_time = IF expiry_time # NoTime THEN expiry_time ELSE @,
                       !.plan = IF plan # None THEN plan ELSE @]]

\* db.update_token_status
DbUpdateTokenStatus(toks, token_id, is_active) ==
    IF token_id \notin DOMAIN toks THEN toks
    ELSE [toks EXCEPT ![token_id].is_active = is_active]

\* db.mark_token_expired / db.clear_token_expired
DbSetExpired(toks, token_id, is_expired) ==
    IF token_id \notin DOMAIN toks THEN toks
    ELSE [toks EXCEPT ![token_id].is_expired = is_expired]

\* db.update_token_phone_verified
DbUpdateTokenPhoneVerified(toks, token_id, is_phone_verified) ==
    IF token_id \notin DOMAIN toks THEN toks
    ELSE [toks EXCEPT ![token_id].is_phone_verified = is_phone_verified]

\* db.update_token_sora2
DbUpdateTokenSora2(toks, token_id, supported, invite_code, remaining_count) ==
    IF token_id \notin DOMAIN toks THEN toks
    ELSE [toks EXCEPT ![token_id].sora2_supported = supported,
                      ![token_id].sora2_invite = invite_code,
                      ![token_id].sora2_remaining_count = remaining_count]

\* an answer of st_to_at / rt_to_at: ok is FALSE when the call raises
Exchange(ok, access_token, refresh_token) ==
    [ok |-> ok, access_token |-> access_token, refresh_token |-> refresh_token]
ExFail == Exchange(FALSE, None, None)

\* an answer of the account API: a status, the error code of its body, and for
\* a 200 the value the handler reads from it
Reply(status, code, value) == [status |-> status, code |-> code, value |-> value]

\* F applied to the value of v, v computed once
With(v, F(_)) == CHOOSE r \in {F(x) : x \in {v}} : TRUE

\* the messages of the exceptions the handlers build, and what test_token's
\* substring tests find in them
FailedUserInfo(status) ==
    CASE status = 401 -> "Failed to get user info: 401"
      [] status = 403 -> "Failed to get user info: 403"
      [] OTHER        -> "Failed to get user info: 500"
InvalidatedMessage == "401 token_invalidated: Token has been invalidated"
UnsupportedCountry == "Sora unavailable in your country"
Has401(message) == message \in {InvalidatedMessage, "Failed to get user info: 401"}
HasTokenInvalidated(message) == message = InvalidatedMessage

\* the exception types the except clause around the token_invalidated check names
CaughtInUserInfo == {"ValueError", "KeyError"}

\* get_user_info after its get_proxy_url: the ValueError for token_invalidated is
\* raised inside the try whose except clause catches ValueError, so what leaves
\* the function is the raise that follows it
GetUserInfo(reply) ==
    IF reply.status = 200
    THEN [ok |-> TRUE, error |-> None, is_phone_number_verified |-> reply.value]
    ELSE [ok |-> FALSE,
          error |-> IF /\ reply.status = 401
                       /\ reply.code = "token_invalidated"
                       /\ "ValueError" \notin CaughtInUserInfo
                    THEN InvalidatedMessage
                    ELSE FailedUserInfo(reply.status),
          is_phone_number_verified |-> None]

\* get_sora2_invite_code after its get_proxy_url: raises for an unsupported
\* country, reports unsupported for any other failure
GetSora2InviteCode(reply) ==
    IF reply.status = 200
    THEN [ok |-> TRUE, error |-> None, supported |-> TRUE, invite_code |-> reply.value]
    ELSE IF reply.code = "unsupported_country_code"
    THEN [ok |-> FALSE, error |-> UnsupportedCountry, supported |-> FALSE,
          invite_code |-> None]
    ELSE [ok |-> TRUE, error |-> None, supported |-> FALSE, invite_code |-> None]

\* the state a handler works on: the pool and the tokens table
Store(p, toks) ==
    [proxies |-> p.proxies, last_refresh |-> p.last_refresh,
     initialized |-> p.initialized, tokens |-> toks]

\* the effect of proxy_manager.get_proxy_url(token_id) on the store;
\* rc = [enabled, config] is the router's state
Resolve(s, rc, token_id, env, t) ==
    With(GetProxyUrl(s, s.tokens, rc.enabled, rc.config, token_id, None, env, t),
         LAMBDA r : Store(r, r.tokens))

\* test_token, step 1: refresh the access token with the ST, else with the RT
RefreshWithSt(toks, token_id, token_data, answer) ==
    IF token_data.st = None \/ ~answer.ok
    THEN [tokens |-> toks, access_token |-> token_data.token, at_refreshed |-> FALSE]
    ELSE With(DecodeJwt(answer.access_token), LAMBDA decoded :
           IF decoded.ok
           THEN [tokens |-> DbUpdateToken(toks, token_id, answer.access_token, None, None,
                                          decoded.exp, None),
                 access_token |-> answer.access_token, at_refreshed |-> TRUE]
           ELSE [tokens |-> toks, access_token |-> answer.access_token,
                 at_refreshed |-> FALSE])

RefreshWithRt(r, token_id, token_data, answer) ==
    IF r.at_refreshed \/ token_data.rt = None \/ ~answer.ok
    THEN r
    ELSE With(DecodeJwt(answer.access_token), LAMBDA decoded :
           IF decoded.ok
           THEN [tokens |-> DbUpdateToken(r.tokens, token_id, answer.access_token, None,
                                          IF answer.refresh_token # None
                                          THEN answer.refresh_token ELSE token_data.rt,
                                          decoded.exp, None),
                 access_token |-> answer.access_token, at_refreshed |-> TRUE]
           ELSE [r EXCEPT !.access_token = answer.access_token])

\* the exchanges step 1 makes, in order: <<kind, answer>>
TestExchanges(token_data, env) ==
    (IF token_data.st # None THEN << <<"st", env.st>> >> ELSE <<>>)
    \o (IF /\ token_data.rt # None
           /\ ~(token_data.st # None /\ env.st.ok /\ DecodeJwt(env.st.access_token).ok)
        THEN << <<"rt", env.rt>> >> ELSE <<>>)

\* an except branch that marks the token expired whatever the message
TestFailedMarksExpired(s, token_id, error_msg) ==
    [store |-> [s EXCEPT !.tokens = DbSetExpired(s.tokens, token_id, TRUE)],
     valid |-> FALSE, message |-> error_msg]

\* test_token's except branch: mark the token expired when the message holds
\* both "401" and "token_invalidated"
TestFailed(s, token_id, error_msg) ==
    IF Has401(error_msg) /\ HasTokenInvalidated(error_msg)
    THEN [store |-> [s EXCEPT !.tokens = DbSetExpired(s.tokens, token_id, TRUE)],
          valid |-> FALSE, message |-> "Token expired (token_invalidated)"]
    ELSE [store |-> s, valid |-> FALSE, message |-> error_msg]

\* test_token from the remaining-count query to the return of the valid result
TestSora2(s, rc, token_id, plan_type, sora2_info, env, t) ==
    With(IF sora2_info.supported THEN Resolve(s, rc, token_id, env, t) ELSE s, LAMBDA s4 :
      [store |-> [s4 EXCEPT !.tokens =
                     DbSetExpired(
                        DbUpdateTokenSora2(
                           DbUpdateToken(s4.tokens, token_id, None, None, None, NoTime,
                                         plan_type),
                           token_id, sora2_info.supported, sora2_info.invite_code,
                           IF sora2_info.supported /\ env.remaining.status = 200
                           THEN env.remaining.value.remaining_count ELSE 0),
                        token_id, FALSE)],
       valid |-> TRUE, message |-> "Token is valid and account info updated"])

\* test_token from the subscription query on
TestSubscription(s, rc, token_id, env, t) ==
    With(Resolve(s, rc, token_id, env, t), LAMBDA s2 :
    With(Resolve(s2, rc, token_id, env, t), LAMBDA s3 :
    With(GetSora2InviteCode(env.invite), LAMBDA sora2_info :
      IF ~sora2_info.ok
      THEN TestFailed(s3, token_id, sora2_info.error)
      ELSE TestSora2(s3, rc, token_id,
                     IF env.sub.status = 200 THEN env.sub.value ELSE None,
                     sora2_info, env, t))))

\* test_token, step 2: get_user_info and what follows it
TestAccount(s, rc, token_id, env, t) ==
    With(Resolve(s, rc, token_id, env, t), LAMBDA s1 :
    With(GetUserInfo(env.me), LAMBDA user_info :
      IF ~user_info.ok
      THEN TestFailed(s1, token_id, user_info.error)
      ELSE TestSubscription(
               [s1 EXCEPT !.tokens = DbUpdateTokenPhoneVerified(
                                         s1.tokens, token_id,
                                         user_info.is_phone_number_verified)],
               rc, token_id, env, t)))

\* test_token; s is the store, env the answers of the remote calls it makes:
\* [st, rt, me, sub, invite, remaining, fetch, resp]
TestToken(s, rc, token_id, env, t) ==
    IF token_id \notin DOMAIN s.tokens
    THEN [store |-> s, valid |-> FALSE, message |-> "Token not found"]
    ELSE With(RefreshWithRt(RefreshWithSt(s.tokens, token_id, s.tokens[token_id], env.st),
                            token_id, s.tokens[token_id], env.rt),
              LAMBDA r : TestAccount([s EXCEPT !.tokens = r.tokens], rc, token_id, env, t))

\* update_token(token_id, token=, st=, rt=, skip_status_update=)
UpdateToken(s, rc, token_id, token, st, rt, skip_status_update, env, t) ==
    With([s EXCEPT !.tokens =
             DbUpdateToken(s.tokens, token_id, token, st, rt,
                           IF token # None /\ DecodeJwt(token).ok
                           THEN DecodeJwt(token).exp ELSE NoTime,
                           None)],
         LAMBDA s1 :
           IF token = None \/ skip_status_update
           THEN s1
           ELSE With(TestToken(s1, rc, token_id, env, t), LAMBDA test_result :
                  IF test_result.valid
                  THEN [test_result.store EXCEPT !.tokens =
                           DbSetExpired(DbUpdateTokenStatus(@, token_id, TRUE),
                                        token_id, FALSE)]
                  ELSE test_result.store))

\* a disable_token that leaves the row as it is
DisableTokenNoop(toks, token_id) == toks

\* disable_token
DisableToken(toks, token_id) == DbUpdateTokenStatus(toks, token_id, FALSE)

\* a refresh check that only skips tokens without a known expiry
NoRefreshNeededUnknownOnly(expiry_time, t) == expiry_time = NoTime

\* a refresh check that waits until the token has expired
NoRefreshNeededBeforeExpiry(expiry_time, t) ==
    expiry_time = NoTime \/ expiry_time - t > 0

\* auto_refresh_expiring_token, steps 2 to 4: nothing to do when no expiry is
\* known or the expiry is more than 24 hours away
NoRefreshNeeded(expiry_time, t) ==
    expiry_time = NoTime \/ expiry_time - t > Day

\* steps 6 and 7 the other way round: the RT is exchanged first
RefreshAttemptRtFirst(token_data, env) ==
    IF token_data.rt # None /\ env.ar_rt.ok
    THEN [new_at |-> env.ar_rt.access_token, new_st |-> None,
          new_rt |-> env.ar_rt.refresh_token,
          exchanges |-> << <<"rt", env.ar_rt>> >>]
    ELSE IF token_data.st # None /\ env.ar_st.ok
    THEN [new_at |-> env.ar_st.access_token, new_st |-> token_data.st, new_rt |-> None,
          exchanges |-> (IF token_data.rt # None THEN << <<"rt", env.ar_rt>> >> ELSE <<>>)
                        \o << <<"st", env.ar_st>> >>]
    ELSE [new_at |-> None, new_st |-> None, new_rt |-> None,
          exchanges |-> (IF token_data.rt # None THEN << <<"rt", env.ar_rt>> >> ELSE <<>>)
                        \o (IF token_data.st # None THEN << <<"st", env.ar_st>> >>
                            ELSE <<>>)]

\* steps 6 and 7: the exchange with the ST, then with the RT;
\* env.ar_st and env.ar_rt are the answers of these two calls
RefreshAttempt(token_data, env) ==
    IF token_data.st # None /\ env.ar_st.ok
    THEN [new_at |-> env.ar_st.access_token, new_st |-> token_data.st, new_rt |-> None,
          exchanges |-> << <<"st", env.ar_st>> >>]
    ELSE IF token_data.rt # None /\ env.ar_rt.ok
    THEN [new_at |-> env.ar_rt.access_token, new_st |-> None,
          new_rt |-> env.ar_rt.refresh_token,
          exchanges |-> (IF token_data.st # None THEN << <<"st", env.ar_st>> >> ELSE <<>>)
                        \o << <<"rt", env.ar_rt>> >>]
    ELSE [new_at |-> None, new_st |-> None, new_rt |-> None,
          exchanges |-> (IF token_data.st # None THEN << <<"st", env.ar_st>> >> ELSE <<>>)
                        \o (IF token_data.rt # None THEN << <<"rt", env.ar_rt>> >>
                            ELSE <<>>)]

\* steps 8 and 9 with the comparison the other way round
RefreshStoreSignFlipped(s, rc, token_id, a, env, t) ==
    With(UpdateToken(s, rc, token_id, a.new_at, a.new_st, a.new_rt, FALSE, env, t),
         LAMBDA s1 :
           IF s1.tokens[token_id].expiry_time = NoTime
              \/ s1.tokens[token_id].expiry_time - t > 0
           THEN [store |-> [s1 EXCEPT !.tokens = DisableToken(@, token_id)],
                 result |-> FALSE]
           ELSE [store |-> s1, result |-> TRUE])

\* steps 8 and 9: store the new token, read the expiry back, disable the token
\* when it is unknown or in the past
RefreshStore(s, rc, token_id, a, env, t) ==
    With(UpdateToken(s, rc, token_id, a.new_at, a.new_st, a.new_rt, FALSE, env, t),
         LAMBDA s1 :
           IF s1.tokens[token_id].expiry_time = NoTime
              \/ s1.tokens[token_id].expiry_time - t < 0
           THEN [store |-> [s1 EXCEPT !.tokens = DisableToken(@, token_id)],
                 result |-> FALSE]
           ELSE [store |-> s1, result |-> TRUE])

\* auto_refresh_expiring_token; the result carries the exchanges made in order
AutoRefreshExpiringToken(s, rc, token_id, env, t) ==
    IF token_id \notin DOMAIN s.tokens
    THEN [store |-> s, result |-> FALSE, exchanges |-> <<>>]
    ELSE IF NoRefreshNeeded(s.tokens[token_id].expiry_time, t)
    THEN [store |-> s, result |-> FALSE, exchanges |-> <<>>]
    ELSE With(RefreshAttempt(s.tokens[token_id], env), LAMBDA a :
           IF a.new_at = None
           THEN [store |-> [s EXCEPT !.tokens = DisableToken(@, token_id)],
                 result |-> FALSE, exchanges |-> a.exchanges]
           ELSE With(RefreshStore(s, rc, token_id, a, env, t), LAMBDA r :
                  [store |-> r.store, result |-> r.result,
                   exchanges |-> a.exchanges \o
                       TestExchanges(
                           [s.tokens[token_id] EXCEPT
                               !.rt = IF a.new_rt # None THEN a.new_rt ELSE @],
                           env)]))

\* a record_error that bans only above the threshold
RecordErrorAbove(toks, stats, token_id, is_overload, error_ban_threshold) ==
    With(IF token_id \notin DOMAIN stats THEN stats
         ELSE [stats EXCEPT ![token_id].error_count = @ + 1,
                            ![token_id].consecutive_error_count =
                                IF is_overload THEN @ ELSE @ + 1],
         LAMBDA stats1 :
           [token_stats |-> stats1,
            tokens |-> IF /\ ~is_overload
                          /\ token_id \in DOMAIN stats1
                          /\ stats1[token_id].consecutive_error_count > error_ban_threshold
                       THEN DbUpdateTokenStatus(toks, token_id, FALSE)
                       ELSE toks])

\* a record_error that counts an overload as a consecutive error too
RecordErrorCountsOverload(toks, stats, token_id, is_overload, error_ban_threshold) ==
    With(IF token_id \notin DOMAIN stats THEN stats
         ELSE [stats EXCEPT ![token_id].error_count = @ + 1,
                            ![token_id].consecutive_error_count = @ + 1],
         LAMBDA stats1 :
           [token_stats |-> stats1,
            tokens |-> IF /\ ~is_overload
                          /\ token_id \in DOMAIN stats1
                          /\ stats1[token_id].consecutive_error_count >= error_ban_threshold
                       THEN DbUpdateTokenStatus(toks, token_id, FALSE)
                       ELSE toks])

\* record_error; error_ban_threshold is admin_config.error_ban_threshold
RecordError(toks, stats, token_id, is_overload, error_ban_threshold) ==
    With(IF token_id \notin DOMAIN stats THEN stats
         ELSE [stats EXCEPT ![token_id].error_count = @ + 1,
                            ![token_id].consecutive_error_count =
                                IF is_overload THEN @ ELSE @ + 1],
         LAMBDA stats1 :
           [token_stats |-> stats1,
            tokens |-> IF /\ ~is_overload
                          /\ token_id \in DOMAIN stats1
                          /\ stats1[token_id].consecutive_error_count >= error_ban_threshold
                       THEN DbUpdateTokenStatus(toks, token_id, FALSE)
                       ELSE toks])

\* db.reset_error_count
DbResetErrorCount(stats, token_id) ==
    IF token_id \notin DOMAIN stats THEN stats
    ELSE [stats EXCEPT ![token_id].consecutive_error_count = 0]

\* enable_token
EnableToken(toks, token_id) ==
    DbSetExpired(DbUpdateTokenStatus(toks, token_id, TRUE), token_id, FALSE)

\* a record_success that sets the cooldown from any hint, zero included
UpdateRemainingAnyHint(s, token_id, reply, t) ==
    IF reply.status # 200 THEN s
    ELSE [s EXCEPT !.tokens =
             With([@ EXCEPT ![token_id].sora2_remaining_count = reply.value.remaining_count],
                  LAMBDA toks :
                    IF reply.value.remaining_count > 1 THEN toks
                    ELSE DisableToken(
                             [toks EXCEPT ![token_id].sora2_cooldown_until =
                                  t + reply.value.access_resets_in_seconds],
                             token_id))]

\* record_success, the part run for a video on a token that supports Sora2:
\* store the remaining count; at 1 or less set the cooldown and disable the token
UpdateRemaining(s, token_id, reply, t) ==
    IF reply.status # 200 THEN s
    ELSE [s EXCEPT !.tokens =
             With([@ EXCEPT ![token_id].sora2_remaining_count = reply.value.remaining_count],
                  LAMBDA toks :
                    IF reply.value.remaining_count > 1 THEN toks
                    ELSE DisableToken(
                             IF reply.value.access_resets_in_seconds > 0
                             THEN [toks EXCEPT ![token_id].sora2_cooldown_until =
                                       t + reply.value.access_resets_in_seconds]
                             ELSE toks,
                             token_id))]

\* record_success; the consecutive error count is reset by the action
RecordSuccess(s, rc, token_id, is_video, env, t) ==
    IF is_video /\ token_id \in DOMAIN s.tokens /\ s.tokens[token_id].sora2_supported
    THEN With(Resolve(s, rc, token_id, env, t),
              LAMBDA s1 : UpdateRemaining(s1, token_id, env.remaining, t))
    ELSE s

----------------------------------------------------------------------------
(* Inputs of the token handlers *)

StAnswers ==
    {ExFail, Exchange(TRUE, "at_new", None), Exchange(TRUE, "at_old", None),
     Exchange(TRUE, "at_bad", None)}
RtAnswers ==
    {ExFail, Exchange(TRUE, "at_rt", "rt2"), Exchange(TRUE, "at_old", None)}

QuietReply == Reply(500, None, None)
MeOk == Reply(200, None, "True")
MeInvalidated == Reply(401, "token_invalidated", None)
MeReplies == {MeOk, MeInvalidated, Reply(401, "invalid_api_key", None), QuietReply}
SubReplies == {Reply(200, None, "chatgpt_plus"), QuietReply}
InviteOk == Reply(200, None, "CODE1")
InviteReplies == {InviteOk, Reply(403, "unsupported_country_code", None), QuietReply}
Remaining(remaining_count, access_resets_in_seconds) ==
    Reply(200, None, [remaining_count |-> remaining_count,
                      access_resets_in_seconds |-> access_resets_in_seconds])
RemainingReplies == {Remaining(5, 0), QuietReply}

\* an answer is drawn only for a call the handler makes
StFor(token_data) == IF token_data.st # None THEN StAnswers ELSE {ExFail}
RtForTest(token_data, st) ==
    IF token_data.rt # None
       /\ ~(token_data.st # None /\ st.ok /\ DecodeJwt(st.access_token).ok)
    THEN RtAnswers ELSE {ExFail}
RtForRefresh(token_data, ar_st) ==
    IF token_data.rt # None /\ ~(token_data.st # None /\ ar_st.ok)
    THEN RtAnswers ELSE {ExFail}

QuietAccount ==
    [me |-> QuietReply, sub |-> QuietReply, invite |-> QuietReply, remaining |-> QuietReply]
AccountEnvs ==
    {[QuietAccount EXCEPT !.me = m] : m \in MeReplies \ {MeOk}}
    \cup {[QuietAccount EXCEPT !.me = MeOk, !.sub = x, !.invite = i] :
             x \in SubReplies, i \in InviteReplies \ {InviteOk}}
    \cup {[QuietAccount EXCEPT !.me = MeOk, !.sub = x, !.invite = InviteOk, !.remaining = r] :
             x \in SubReplies, r \in RemainingReplies}

QuietBind == [fetch |-> FetchFailed, resp |-> [u \in PoolUrls |-> Refused]]
QuietExchange == [ar_st |-> ExFail, ar_rt |-> ExFail, st |-> ExFail, rt |-> ExFail]
QuietEnv == QuietExchange @@ QuietAccount @@ QuietBind

\* the pool answers a handler may see when one of its calls can start a bind
BindFor(token_data) ==
    IF free_proxy_enabled /\ free_proxy_manager /\ token_data.proxy_url = None
    THEN {QuietBind, [fetch |-> [ok |-> TRUE, data |-> Feed1],
                      resp |-> [u \in PoolUrls |-> Fast]]}
    ELSE {QuietBind}

TestEnvsWith(token_data, accounts) ==
    UNION {{[QuietExchange EXCEPT !.st = a, !.rt = b] @@ acc @@ bind :
               b \in RtForTest(token_data, a), acc \in accounts,
               bind \in BindFor(token_data)} :
           a \in StFor(token_data)}

TestEnvs(token_data) == TestEnvsWith(token_data, AccountEnvs)

\* the account answers that decide the test made at the end of a refresh:
\* every call answers, /me fails, the country is not supported
RefreshAccountEnvs ==
    {[QuietAccount EXCEPT !.me = MeOk, !.sub = Reply(200, None, "chatgpt_plus"),
                          !.invite = InviteOk, !.remaining = Remaining(5, 0)],
     QuietAccount,
     [QuietAccount EXCEPT !.me = MeOk,
                          !.invite = Reply(403, "unsupported_country_code", None)]}

RefreshEnvs(token_data) ==
    IF NoRefreshNeeded(token_data.expiry_time, now) THEN {QuietEnv}
    ELSE UNION {UNION {IF RefreshAttempt(token_data, [ar_st |-> a, ar_rt |-> b]).new_at = None
                 THEN {[QuietEnv EXCEPT !.ar_st = a, !.ar_rt = b]}
                 ELSE {[e EXCEPT !.ar_st = a, !.ar_rt = b] :
                          e \in TestEnvsWith(token_data, RefreshAccountEnvs)} :
                    b \in RtForRefresh(token_data, a)} :
                a \in StFor(token_data)}

----------------------------------------------------------------------------
(* Token refresh: auto_refresh_expiring_token on one stored token, the clock *)
(* moving between calls                                                      *)

RefreshRow(st, rt, expiry_time, is_active) ==
    [TokenRow(None) EXCEPT !.st = st, !.rt = rt, !.expiry_time = expiry_time,
                           !.is_active = is_active]

\* expiries at the start: unknown, an hour ago, in 10 hours, a minute over 24
\* hours away, two days away
InitExpiries ==
    {NoTime, StartTime - 3600, StartTime + 10 * 3600, StartTime + Day + 60,
     StartTime + 2 * Day}

RouterConfig ==
    [enabled |-> free_proxy_enabled /\ free_proxy_manager, config |-> proxy_config]
StoreNow == Store(PoolI, tokens)

InitRefresh ==
    /\ InitPool
    /\ free_proxy_manager = FALSE
    /\ free_proxy_enabled = FALSE
    /\ proxy_config = [proxy_enabled |-> FALSE, proxy_url |-> None]
    /\ \E st \in {None, "st1"}, rt \in {None, "rt1"}, e \in InitExpiries,
          is_active \in BOOLEAN :
          tokens = [i \in {1} |-> RefreshRow(st, rt, e, is_active)]
    /\ token_stats = [i \in {1} |-> StatsRow]
    /\ now = StartTime
    /\ ret = RetNone
    /\ calls = [k \in Tasks |-> NoFrame]
    /\ overlapped = FALSE

RowOf(toks, token_id) ==
    IF token_id \in DOMAIN toks THEN toks[token_id] ELSE TokenRow(None)

\* what every token handler call leaves in ret
TokenRet(op, token_id) ==
    [RetNone EXCEPT !.op = op, !.token_id = token_id,
                    !.pre_exists = token_id \in DOMAIN tokens,
                    !.pre_row = RowOf(tokens, token_id),
                    !.pre_stats = IF token_id \in DOMAIN token_stats
                                  THEN token_stats[token_id] ELSE StatsRow,
                    !.time = now]

\* the token ids handlers are still called with: none once MaxCalls calls are made
Callable(ids) == IF ret.seq < MaxCalls THEN ids ELSE {}

CallAutoRefreshExpiringToken(token_id, env) ==
    /\ \E r \in {AutoRefreshExpiringToken(StoreNow, RouterConfig, token_id, env, now)} :
          /\ proxies' = r.store.proxies
          /\ last_refresh' = r.store.last_refresh
          /\ initialized' = r.store.initialized
          /\ tokens' = r.store.tokens
          /\ ret' = [TokenRet("auto_refresh_expiring_token", token_id)
                         EXCEPT !.valid = r.result, !.exchanges = r.exchanges,
                                !.seq = ret.seq + 1]
    /\ UNCHANGED <<routerVars, proxy_config, token_stats, now, calls, overlapped>>

NextRefresh ==
    \/ Tick
    \/ \E token_id \in Callable({1, MissingId}) :
          \E env \in RefreshEnvs(RowOf(tokens, token_id)) :
             CallAutoRefreshExpiringToken(token_id, env)

SpecRefresh == InitRefresh /\ [][NextRefresh]_vars

AutoRefreshed == ret.op = "auto_refresh_expiring_token" /\ ret.pre_exists
\* at the time of the call the stored expiry was known and at most 24 hours away
RefreshDue ==
    ret.pre_row.expiry_time # NoTime /\ ret.pre_row.expiry_time - ret.time <= Day
ExchangesMade == {ret.exchanges[i] : i \in 1..Len(ret.exchanges)}
\* the answer of the last exchange that succeeded
LastOkExchange ==
    ret.exchanges[CHOOSE i \in 1..Len(ret.exchanges) :
                     /\ ret.exchanges[i][2].ok
                     /\ \A j \in (i + 1)..Len(ret.exchanges) : ~ret.exchanges[j][2].ok][2]

\* C5: when auto_refresh_expiring_token runs on a token whose expiry is within 24
\* hours and every exchange it can attempt fails, or an exchange succeeds but the
\* expiry stored for the refreshed token is in the past, the token ends
\* disabled and the call returns False
C5_FailedRefreshDisables ==
    AutoRefreshed /\ RefreshDue
    /\ \/ \A x \in ExchangesMade : ~x[2].ok
       \/ /\ \E x \in ExchangesMade : x[2].ok
          /\ tokens[ret.token_id].expiry_time < ret.time
    => ~tokens[ret.token_id].is_active /\ ~ret.valid

\* C5 witness: an active token with both secondary credentials, both exchanges
\* tried and failed, now disabled
C5_Witness ==
    /\ AutoRefreshed /\ RefreshDue
    /\ ret.pre_row.is_active
    /\ Len(ret.exchanges) = 2
    /\ \A x \in ExchangesMade : ~x[2].ok
    /\ ~tokens[ret.token_id].is_active

\* C6: when auto_refresh_expiring_token runs on an active token whose expiry is
\* ahead and within 24 hours (10 hours in the scenario) and whose ST exchanges
\* for an access token with a future expiry, no exchange of the call handing
\* back an expired or undecodable one, the stored access token and expiry are
\* replaced by those of the call's last successful exchange, the call returns
\* True and the token is active afterwards
C6_RefreshReplacesToken ==
    /\ AutoRefreshed /\ RefreshDue
    /\ ret.pre_row.is_active
    /\ ret.pre_row.expiry_time > ret.time
    /\ ret.exchanges # <<>>
    /\ ret.exchanges[1][1] = "st" /\ ret.exchanges[1][2].ok
    /\ \A x \in ExchangesMade :
          x[2].ok => /\ DecodeJwt(x[2].access_token).ok
                     /\ DecodeJwt(x[2].access_token).exp > ret.time
    => /\ ret.valid
       /\ tokens[ret.token_id].is_active
       /\ tokens[ret.token_id].token = LastOkExchange.access_token
       /\ tokens[ret.token_id].token # ret.pre_row.token
       /\ tokens[ret.token_id].expiry_time = DecodeJwt(LastOkExchange.access_token).exp
       /\ tokens[ret.token_id].expiry_time # ret.pre_row.expiry_time

\* C6 witness: the scenario itself, expiry 10 hours ahead, the ST exchanged, a
\* new token and expiry stored
C6_Witness ==
    /\ AutoRefreshed
    /\ ret.pre_row.is_active
    /\ ret.pre_row.expiry_time - ret.time = 10 * 3600
    /\ ret.exchanges # <<>>
    /\ Len(ret.exchanges) = 2
    /\ \A x \in ExchangesMade : x[1] = "st" /\ x[2].ok /\ x[2].access_token = "at_new"
    /\ ret.valid
    /\ tokens[ret.token_id].token = "at_new"

\* C7: auto_refresh_expiring_token does nothing when the token has no known
\* expiry or its expiry is more than 24 hours away: no exchange is attempted and
\* the row (access token, ST, RT, expiry, active flag and the rest) is unchanged
C7_NoRefreshIsNoOp ==
    /\ AutoRefreshed
    /\ \/ ret.pre_row.expiry_time = NoTime
       \/ ret.pre_row.expiry_time - ret.time > Day
    => /\ ret.exchanges = <<>>
       /\ tokens[ret.token_id] = ret.pre_row
       /\ ~ret.valid

\* C7 witness: a token holding an ST and an RT whose expiry is more than 24 hours
\* away went through the call
C7_Witness ==
    /\ AutoRefreshed
    /\ ret.pre_row.expiry_time - ret.time > Day
    /\ ret.pre_row.st # None /\ ret.pre_row.rt # None
    /\ tokens[ret.token_id] = ret.pre_row

----------------------------------------------------------------------------
(* Token validation: test_token on one stored token, free-pool routing       *)
(* switched on or left off                                                   *)

TestRow(st, rt, proxy_url, is_active, is_expired) ==
    [TokenRow(proxy_url) EXCEPT !.st = st, !.rt = rt,
                                !.expiry_time = StartTime + 10 * 3600,
                                !.is_active = is_active, !.is_expired = is_expired]

InitTest ==
    /\ InitPool
    /\ free_proxy_manager = FALSE
    /\ free_proxy_enabled = FALSE
    /\ proxy_config = [proxy_enabled |-> FALSE, proxy_url |-> None]
    /\ \E st \in {None, "st1"}, rt \in {None, "rt1"}, proxy_url \in {None, OperatorUrl},
          is_active \in BOOLEAN, is_expired \in BOOLEAN :
          tokens = [i \in {1} |-> TestRow(st, rt, proxy_url, is_active, is_expired)]
    /\ token_stats = [i \in {1} |-> StatsRow]
    /\ now = StartTime
    /\ ret = RetNone
    /\ calls = [k \in Tasks |-> NoFrame]
    /\ overlapped = FALSE

CallTestToken(token_id, env) ==
    /\ ret.seq < MaxCalls
    /\ \E r \in {TestToken(StoreNow, RouterConfig, token_id, env, now)} :
          /\ proxies' = r.store.proxies
          /\ last_refresh' = r.store.last_refresh
          /\ initialized' = r.store.initialized
          /\ tokens' = r.store.tokens
          /\ ret' = [TokenRet("test_token", token_id)
                         EXCEPT !.valid = r.valid, !.message = r.message, !.me = env.me,
                                !.exchanges = TestExchanges(RowOf(tokens, token_id), env),
                                !.seq = ret.seq + 1]
    /\ UNCHANGED <<routerVars, proxy_config, token_stats, now, calls, overlapped>>

NextTest ==
    \/ \E enabled \in BOOLEAN : SetFreeProxyManager(enabled)
    \/ \E token_id \in Callable({1, MissingId}) :
          \E env \in TestEnvs(RowOf(tokens, token_id)) : CallTestToken(token_id, env)

SpecTest == InitTest /\ [][NextTest]_vars

Tested == ret.op = "test_token" /\ ret.pre_exists

\* C8 as stated: when the /me call made by test_token answers 401 with error code
\* token_invalidated, the token's expired flag is set, its active flag is as
\* before and the result is invalid
C8_InvalidatedMarksExpired ==
    Tested /\ ret.me = MeInvalidated
    => /\ tokens[ret.token_id].is_expired
       /\ tokens[ret.token_id].is_active = ret.pre_row.is_active
       /\ ~ret.valid

\* the fields C9 names
StoredState(row) ==
    <<row.token, row.expiry_time, row.is_expired, row.is_active, row.plan,
      row.is_phone_verified, row.sora2_supported, row.sora2_invite,
      row.sora2_remaining_count, row.proxy_url>>

OtherFailure == Tested /\ ~ret.valid /\ ret.me # MeInvalidated

\* C9 as stated: when test_token fails for a reason other than a token_invalidated
\* 401 the result is invalid and carries the error message, and the stored
\* access token, expiry, expired flag, active flag, cached account fields and
\* bound proxy are as before the call
C9_Original ==
    OtherFailure
    => /\ ret.message # None
       /\ StoredState(tokens[ret.token_id]) = StoredState(ret.pre_row)

\* C9 amended: such a failure returns the error message and leaves the expired
\* flag, the active flag, the ST and the cached subscription and Sora2 fields
\* as they were; the access token, expiry and RT change only to the result of
\* a successful exchange made before the test, the phone flag only after a
\* successful /me call, the bound proxy only from none to a proxy of the pool
C9_FailureKeepsFlags ==
    OtherFailure
    => LET row == tokens[ret.token_id]
           pre == ret.pre_row
       IN /\ ret.message # None
          /\ row.is_expired = pre.is_expired
          /\ row.is_active = pre.is_active
          /\ row.st = pre.st
          /\ row.plan = pre.plan
          /\ row.sora2_supported = pre.sora2_supported
          /\ row.sora2_invite = pre.sora2_invite
          /\ row.sora2_remaining_count = pre.sora2_remaining_count
          /\ \/ row.token = pre.token /\ row.expiry_time = pre.expiry_time /\ row.rt = pre.rt
             \/ \E x \in ExchangesMade :
                   /\ x[2].ok /\ DecodeJwt(x[2].access_token).ok
                   /\ row.token = x[2].access_token
                   /\ row.expiry_time \in {DecodeJwt(x[2].access_token).exp, pre.expiry_time}
                   /\ row.rt \in {pre.rt, x[2].refresh_token}
          /\ row.is_phone_verified # pre.is_phone_verified => ret.me.status = 200
          /\ \/ row.proxy_url = pre.proxy_url
             \/ pre.proxy_url = None /\ InPool(proxies, row.proxy_url)

\* C9 witness: a test that failed on a 500 from /me after its ST exchange had
\* replaced the stored access token
C9_Witness ==
    /\ OtherFailure
    /\ ret.me = QuietReply
    /\ tokens[ret.token_id].token = "at_new"
    /\ ret.pre_row.token = "at0"
    /\ tokens[ret.token_id].is_expired = ret.pre_row.is_expired

----------------------------------------------------------------------------
(* Usage accounting: record_error, record_success, enable_token and          *)
(* disable_token on one stored token                                         *)

UsageEnvs == {[QuietEnv EXCEPT !.remaining = r] :
                 r \in {Remaining(5, 0), Remaining(1, 600), Remaining(0, 0), Remaining(0, 900),
                       Remaining(2, 600), QuietReply}}

InitUsage ==
    /\ InitPool
    /\ free_proxy_manager = FALSE
    /\ free_proxy_enabled = FALSE
    /\ proxy_config = [proxy_enabled |-> FALSE, proxy_url |-> None]
    /\ \E sora2_supported \in BOOLEAN :
          tokens = [i \in {1} |-> [TokenRow(None) EXCEPT
                                      !.sora2_supported = sora2_supported]]
    /\ token_stats = [i \in {1} |-> StatsRow]
    /\ now = StartTime
    /\ ret = RetNone
    /\ calls = [k \in Tasks |-> NoFrame]
    /\ overlapped = FALSE

CallRecordError(token_id, is_overload) ==
    /\ token_id \in DOMAIN token_stats => token_stats[token_id].error_count < MaxErrors
    /\ \E r \in {RecordError(tokens, token_stats, token_id, is_overload, ErrorBanThreshold)} :
          /\ tokens' = r.tokens
          /\ token_stats' = r.token_stats
    /\ ret' = [TokenRet("record_error", token_id) EXCEPT !.is_overload = is_overload]
    /\ UNCHANGED <<poolVars, routerVars, proxy_config, now, calls, overlapped>>

CallRecordSuccess(token_id, is_video, env) ==
    /\ token_stats' = DbResetErrorCount(token_stats, token_id)
    /\ \E s \in {RecordSuccess(StoreNow, RouterConfig, token_id, is_video, env, now)} :
          /\ proxies' = s.proxies
          /\ last_refresh' = s.last_refresh
          /\ initialized' = s.initialized
          /\ tokens' = s.tokens
    /\ ret' = [TokenRet("record_success", token_id) EXCEPT
                  !.is_video = is_video,
                  !.queried = /\ is_video /\ token_id \in DOMAIN tokens
                              /\ tokens[token_id].sora2_supported
                              /\ env.remaining.status = 200,
                  !.remaining_count = IF env.remaining.status = 200
                                      THEN env.remaining.value.remaining_count ELSE 0,
                  !.reset_seconds = IF env.remaining.status = 200
                                    THEN env.remaining.value.access_resets_in_seconds ELSE 0]
    /\ UNCHANGED <<routerVars, proxy_config, now, calls, overlapped>>

CallEnableToken(token_id) ==
    /\ tokens' = EnableToken(tokens, token_id)
    /\ token_stats' = DbResetErrorCount(token_stats, token_id)
    /\ ret' = TokenRet("enable_token", token_id)
    /\ UNCHANGED <<poolVars, routerVars, proxy_config, now, calls, overlapped>>

CallDisableToken(token_id) ==
    /\ tokens' = DisableToken(tokens, token_id)
    /\ ret' = TokenRet("disable_token", token_id)
    /\ UNCHANGED <<poolVars, routerVars, proxy_config, token_stats, now, calls, overlapped>>

NextUsage ==
    \/ \E token_id \in {1, MissingId}, is_overload \in BOOLEAN :
          CallRecordError(token_id, is_overload)
    \/ \E token_id \in {1, MissingId}, is_video \in BOOLEAN, env \in UsageEnvs :
          CallRecordSuccess(token_id, is_video, env)
    \/ \E token_id \in {1, MissingId} : CallEnableToken(token_id)
    \/ \E token_id \in {1, MissingId} : CallDisableToken(token_id)

SpecUsage == InitUsage /\ [][NextUsage]_vars

\* C10: a record_error that is not an overload and brings the token's consecutive
\* error count to the threshold or above disables the token in that call; an
\* overload record_error leaves the active flag as it was
C10_ErrorBan ==
    ret.op = "record_error" /\ ret.pre_exists
    => /\ ~ret.is_overload
          /\ ret.pre_stats.consecutive_error_count + 1 >= ErrorBanThreshold
          => ~tokens[ret.token_id].is_active
       /\ ret.is_overload => tokens[ret.token_id].is_active = ret.pre_row.is_active

\* C10 witness: an active token one error short of the threshold was disabled by
\* a record_error that was not an overload
C10_Witness ==
    /\ ret.op = "record_error" /\ ret.pre_exists
    /\ ~ret.is_overload
    /\ ret.pre_row.is_active
    /\ ret.pre_stats.consecutive_error_count + 1 = ErrorBanThreshold
    /\ token_stats[ret.token_id].consecutive_error_count = ErrorBanThreshold
    /\ ~tokens[ret.token_id].is_active

\* a record_success for a video whose remaining-count request answered with a
\* count of 1 or less
QuotaExhausted ==
    /\ ret.op = "record_success" /\ ret.is_video /\ ret.queried
    /\ ret.remaining_count <= 1

\* C11 as stated: after record_success for a video whose re-queried remaining
\* count is 1 or less the token is disabled and its cooldown is the time of the
\* call plus the reset hint, whatever the hint
C11_Original ==
    QuotaExhausted
    => /\ ~tokens[ret.token_id].is_active
       /\ tokens[ret.token_id].sora2_cooldown_until = ret.time + ret.reset_seconds

\* C11: after record_success for a video whose re-queried remaining count is 1
\* or less the token is disabled; its cooldown is the time of the call plus the
\* reset hint when the hint is positive, and is left as it was otherwise
C11_CooldownFromPositiveHint ==
    QuotaExhausted
    => /\ ~tokens[ret.token_id].is_active
       /\ tokens[ret.token_id].sora2_cooldown_until =
             IF ret.reset_seconds > 0 THEN ret.time + ret.reset_seconds
             ELSE ret.pre_row.sora2_cooldown_until

\* C11 witness: an active token with no cooldown was disabled by a video
\* record_success that saw one use left and a positive hint, and has its cooldown
C11_Witness ==
    /\ QuotaExhausted
    /\ ret.pre_row.is_active /\ ret.pre_row.sora2_cooldown_until = NoTime
    /\ ret.remaining_count = 1 /\ ret.reset_seconds > 0
    /\ ~tokens[ret.token_id].is_active
    /\ tokens[ret.token_id].sora2_cooldown_until = ret.time + ret.reset_seconds

----------------------------------------------------------------------------
(* Quota cooldown: one stored token under every lifecycle operation, the     *)
(* clock moving between calls                                                *)

\* the store a call leaves, with whether it asked for the remaining count
Asked(s, queried) == [queried |-> queried] @@ s

\* a cooldown refresh that clears the cooldown whatever the answer
RefreshSora2ClearsUnanswered(s, rc, token_id, env, t) ==
    IF token_id \notin DOMAIN s.tokens THEN Asked(s, FALSE)
    ELSE IF ~s.tokens[token_id].sora2_supported THEN Asked(s, FALSE)
    ELSE IF ~(/\ s.tokens[token_id].sora2_cooldown_until # NoTime
              /\ s.tokens[token_id].sora2_cooldown_until <= t) THEN Asked(s, FALSE)
    ELSE With(Resolve(s, rc, token_id, env, t),
              LAMBDA s1 :
                Asked([s1 EXCEPT
                         !.tokens[token_id].sora2_remaining_count =
                             IF env.remaining.status # 200 THEN @
                             ELSE env.remaining.value.remaining_count,
                         !.tokens[token_id].sora2_cooldown_until = NoTime], TRUE))

\* a cooldown refresh that enables the token again when it clears the cooldown
RefreshSora2Reenables(s, rc, token_id, env, t) ==
    IF token_id \notin DOMAIN s.tokens THEN Asked(s, FALSE)
    ELSE IF ~s.tokens[token_id].sora2_supported THEN Asked(s, FALSE)
    ELSE IF ~(/\ s.tokens[token_id].sora2_cooldown_until # NoTime
              /\ s.tokens[token_id].sora2_cooldown_until <= t) THEN Asked(s, FALSE)
    ELSE With(Resolve(s, rc, token_id, env, t),
              LAMBDA s1 :
                IF env.remaining.status # 200 THEN Asked(s1, TRUE)
                ELSE Asked([s1 EXCEPT
                              !.tokens[token_id].sora2_remaining_count =
                                  env.remaining.value.remaining_count,
                              !.tokens[token_id].sora2_cooldown_until = NoTime,
                              !.tokens[token_id].is_active = TRUE], TRUE))

\* refresh_sora2_remaining_if_cooldown_expired: once the clock has reached the
\* cooldown, ask for the remaining count and, if that answers, store it and
\* clear the cooldown
RefreshSora2RemainingIfCooldownExpired(s, rc, token_id, env, t) ==
    IF token_id \notin DOMAIN s.tokens THEN Asked(s, FALSE)
    ELSE IF ~s.tokens[token_id].sora2_supported THEN Asked(s, FALSE)
    ELSE IF ~(/\ s.tokens[token_id].sora2_cooldown_until # NoTime
              /\ s.tokens[token_id].sora2_cooldown_until <= t) THEN Asked(s, FALSE)
    ELSE With(Resolve(s, rc, token_id, env, t),
              LAMBDA s1 :
                IF env.remaining.status # 200 THEN Asked(s1, TRUE)
                ELSE Asked([s1 EXCEPT
                              !.tokens[token_id].sora2_remaining_count =
                                  env.remaining.value.remaining_count,
                              !.tokens[token_id].sora2_cooldown_until = NoTime], TRUE))

\* the remaining-count answers: one use left and a reset within a tick, none
\* left and a reset beyond the last tick, uses left, no answer
LifecycleEnvs ==
    {[QuietEnv EXCEPT !.remaining = r] :
        r \in {Remaining(1, REFRESH_INTERVAL), Remaining(0, (MaxTicks + 1) * REFRESH_INTERVAL + 60),
               Remaining(5, 0), QuietReply}}

\* the exchange and account answers of the lifecycle: everything answers, or
\* nothing does
LifecycleRefreshEnvs(token_data) ==
    {e \in RefreshEnvs(token_data) :
        /\ e.ar_st \in {ExFail, Exchange(TRUE, "at_new", None)}
        /\ e.st \in {ExFail, Exchange(TRUE, "at_new", None)}
        /\ e.invite # Reply(403, "unsupported_country_code", None)}

LifecycleTestEnvs(token_data) ==
    {e \in TestEnvsWith(token_data, RefreshAccountEnvs) :
        e.st \in {ExFail, Exchange(TRUE, "at_new", None)}}

InitLifecycle ==
    /\ InitPool
    /\ free_proxy_manager = FALSE
    /\ free_proxy_enabled = FALSE
    /\ proxy_config = [proxy_enabled |-> FALSE, proxy_url |-> None]
    /\ \E st \in {None, "st1"}, e \in {StartTime + 10 * 3600, StartTime + 2 * Day} :
          tokens = [i \in {1} |-> [RefreshRow(st, None, e, TRUE) EXCEPT
                                      !.sora2_supported = TRUE]]
    /\ token_stats = [i \in {1} |-> StatsRow]
    /\ now = StartTime
    /\ ret = RetNone
    /\ calls = [k \in Tasks |-> NoFrame]
    /\ overlapped = FALSE

CallRefreshSora2RemainingIfCooldownExpired(token_id, env) ==
    /\ \E s \in {RefreshSora2RemainingIfCooldownExpired(StoreNow, RouterConfig,
                                                          token_id, env, now)} :
          /\ proxies' = s.proxies
          /\ last_refresh' = s.last_refresh
          /\ initialized' = s.initialized
          /\ tokens' = s.tokens
          /\ ret' = [TokenRet("refresh_sora2_remaining_if_cooldown_expired", token_id)
                        EXCEPT !.queried = s.queried,
                               !.status = IF s.queried THEN env.remaining.status ELSE 0,
                               !.remaining_count =
                                   IF s.queried /\ env.remaining.status = 200
                                   THEN env.remaining.value.remaining_count ELSE 0]
    /\ UNCHANGED <<routerVars, proxy_config, token_stats, now, calls, overlapped>>

NextLifecycle ==
    \/ Tick
    \/ \E env \in LifecycleEnvs : CallRecordSuccess(1, TRUE, env)
    \/ token_stats[1].error_count < MaxCalls /\ CallRecordError(1, FALSE)
    \/ \E env \in LifecycleEnvs : CallRefreshSora2RemainingIfCooldownExpired(1, env)
    \/ \E token_id \in Callable({1}) :
          \E env \in LifecycleRefreshEnvs(RowOf(tokens, token_id)) :
             CallAutoRefreshExpiringToken(token_id, env)
    \/ \E token_id \in Callable({1}) :
          \E env \in LifecycleTestEnvs(RowOf(tokens, token_id)) :
             CallTestToken(token_id, env)
    \/ CallEnableToken(1)

SpecLifecycle == InitLifecycle /\ [][NextLifecycle]_vars

AutomaticOps ==
    {"auto_refresh_expiring_token", "test_token", "record_success", "record_error",
     "refresh_sora2_remaining_if_cooldown_expired"}

\* the last call found the token disabled with a cooldown the clock had not
\* reached
CalledInCooldown ==
    /\ ret.pre_exists
    /\ ~ret.pre_row.is_active
    /\ ret.pre_row.sora2_cooldown_until # NoTime
    /\ ret.time < ret.pre_row.sora2_cooldown_until

\* C12: a token disabled with cooldown T is not made active before the clock
\* reaches T by auto_refresh_expiring_token, test_token, record_success,
\* record_error or refresh_sora2_remaining_if_cooldown_expired
C12_NoEarlyReactivation ==
    ret.op \in AutomaticOps /\ CalledInCooldown => ~tokens[ret.token_id].is_active

----------------------------------------------------------------------------
(* The pool alone: initialize, _refresh_proxy_list, _ensure_fresh_proxies,   *)
(* report_success and report_failure, the clock moving in half intervals     *)

PoolStep == REFRESH_INTERVAL \div 2
PoolFetches == Fetches \cup {FetchRefused}
ReportUrls == {"socks5://a:1080", "socks5://b:1080", "socks5://x:1080"}
PoolBudget == Reports(proxies) < MaxPoolReports

InitPoolOnly ==
    /\ InitPool
    /\ free_proxy_manager = TRUE
    /\ free_proxy_enabled = TRUE
    /\ proxy_config = [proxy_enabled |-> FALSE, proxy_url |-> None]
    /\ tokens = <<>>
    /\ token_stats = <<>>
    /\ now = StartTime
    /\ ret = RetNone
    /\ calls = <<>>
    /\ overlapped = FALSE

\* what a pool call leaves in ret; the facts about the latest
\* _ensure_fresh_proxies call are carried along
PoolRet(op, url) ==
    [RetNone EXCEPT !.op = op, !.url = url, !.time = now,
                    !.pre_pool = proxies, !.pre_last_refresh = last_refresh,
                    !.ensure_time = ret.ensure_time,
                    !.ensure_fetched = ret.ensure_fetched,
                    !.ensure_ok = ret.ensure_ok]

Advance ==
    /\ now + PoolStep <= StartTime + 3 * MaxTicks * PoolStep
    /\ now' = now + PoolStep
    /\ UNCHANGED <<poolVars, routerVars, dbVars, ret, calls, overlapped>>

CallInitializePool(fetch) ==
    /\ \E r \in {Initialize(PoolI, fetch, now)} :
          /\ proxies' = r.proxies
          /\ last_refresh' = r.last_refresh
          /\ initialized' = r.initialized
    /\ ret' = [PoolRet("initialize", None) EXCEPT !.fetch = fetch,
                                                  !.fetched = ~initialized]
    /\ UNCHANGED <<routerVars, dbVars, now, calls, overlapped>>

CallRefreshProxyList(fetch) ==
    /\ \E r \in {RefreshProxyList(Pool, fetch, now)} :
          /\ proxies' = r.proxies
          /\ last_refresh' = r.last_refresh
    /\ ret' = [PoolRet("_refresh_proxy_list", None) EXCEPT !.fetch = fetch,
                                                           !.fetched = TRUE]
    /\ UNCHANGED <<initialized, routerVars, dbVars, now, calls, overlapped>>

CallEnsureFreshProxies(fetch) ==
    /\ \E r \in {EnsureFreshProxies(Pool, fetch, now)} :
          /\ proxies' = r.proxies
          /\ last_refresh' = r.last_refresh
    /\ ret' = [PoolRet("_ensure_fresh_proxies", None) EXCEPT
                  !.fetch = fetch,
                  !.fetched = NeedsRefresh(last_refresh, now),
                  !.prev_time = ret.ensure_time,
                  !.prev_fetched = ret.ensure_fetched,
                  !.prev_ok = ret.ensure_ok,
                  !.ensure_time = now,
                  !.ensure_fetched = NeedsRefresh(last_refresh, now),
                  !.ensure_ok = fetch.ok]
    /\ UNCHANGED <<initialized, routerVars, dbVars, now, calls, overlapped>>

CallReportSuccess(url, response_time) ==
    /\ PoolBudget
    /\ proxies' = ReportSuccess(proxies, url, response_time, now)
    /\ ret' = [PoolRet("report_success", url) EXCEPT !.response_time = response_time]
    /\ UNCHANGED <<last_refresh, initialized, routerVars, dbVars, now, calls, overlapped>>

CallReportFailure(url) ==
    /\ PoolBudget
    /\ proxies' = ReportFailure(proxies, url, now)
    /\ ret' = PoolRet("report_failure", url)
    /\ UNCHANGED <<last_refresh, initialized, routerVars, dbVars, now, calls, overlapped>>

CallHealthCheckProxy(url, answer) ==
    /\ PoolBudget
    /\ \E check \in {HealthCheckProxy(proxies, url, answer, now)} :
          /\ proxies' = check.proxies
          /\ ret' = [PoolRet("health_check_proxy", url) EXCEPT
                        !.valid = check.working, !.status = answer.status,
                        !.response_time = answer.time]
    /\ UNCHANGED <<last_refresh, initialized, routerVars, dbVars, now, calls, overlapped>>

\* refreshes and probes on the pool
NextProbe ==
    \/ \E fetch \in PoolFetches : CallRefreshProxyList(fetch)
    \/ \E url \in ReportUrls, answer \in {Fast, Slow, Refused, TimedOut} :
          CallHealthCheckProxy(url, answer)

SpecProbe == InitPoolOnly /\ [][NextProbe]_vars

\* refreshes and reports on the pool, the clock standing still
NextPool ==
    \/ \E fetch \in PoolFetches : CallRefreshProxyList(fetch)
    \/ \E url \in ReportUrls : CallReportSuccess(url, Fast.time)
    \/ \E url \in ReportUrls : CallReportFailure(url)

\* the calls that can fetch the proxy list, the clock moving between them
NextFresh ==
    \/ Advance
    \/ \E fetch \in PoolFetches : CallInitializePool(fetch)
    \/ \E fetch \in PoolFetches : CallRefreshProxyList(fetch)
    \/ \E fetch \in {f \in PoolFetches : FetchRead([fetch |-> f])} :
          CallEnsureFreshProxies(fetch)

SpecFresh == InitPoolOnly /\ [][NextFresh]_vars

SpecPool == InitPoolOnly /\ [][NextPool]_vars

\* the last call was a report_failure for a url of the pool
FailureReported == ret.op = "report_failure" /\ InPool(ret.pre_pool, ret.url)

\* the condition under which a record is marked unhealthy, on its counts after
\* the failure was added
MarkCondition(q) ==
    /\ q.failure_count >= 3
    /\ (q.success_count = 0 \/ q.failure_count > q.success_count)

Passing(data) ==
    {i \in 1..Len(data) :
        /\ data[i].score >= MIN_SCORE
        /\ data[i].ip # "" /\ data[i].port # 0
        /\ data[i].protocol \in ALLOWED_PROTOCOLS}
EntryUrl(d) == ProxyUrl(d.protocol, d.ip, d.port)

\* the last call fetched the list and the fetch answered
Refreshed == ret.fetched /\ ret.fetch.ok

\* C15: after a successful refresh the pool holds exactly the urls of the fetched
\* entries that pass the filters; a url known before keeps its record but for
\* the score, which is the fetched one; a new url has zero counters and is healthy
C15_RefreshKeepsCounters ==
    Refreshed
    => /\ UrlsOf(proxies) = {EntryUrl(ret.fetch.data[i]) : i \in Passing(ret.fetch.data)}
       /\ \A i \in Passing(ret.fetch.data) :
             LET u == EntryUrl(ret.fetch.data[i])
                 q == Lookup(proxies, u)
             IN IF InPool(ret.pre_pool, u)
                THEN q = [Lookup(ret.pre_pool, u) EXCEPT !.score = ret.fetch.data[i].score]
                ELSE /\ q.success_count = 0 /\ q.failure_count = 0
                     /\ q.avg_response_time = 0 /\ q.is_healthy
                     /\ q.score = ret.fetch.data[i].score

\* C15 witness: a refresh kept a record with counts under a new score, dropped
\* a url and added one
C15_Witness ==
    /\ Refreshed
    /\ \E u \in UrlsOf(ret.pre_pool) \cap UrlsOf(proxies) :
          /\ Lookup(proxies, u).success_count + Lookup(proxies, u).failure_count > 0
          /\ Lookup(proxies, u).score # Lookup(ret.pre_pool, u).score
    /\ UrlsOf(ret.pre_pool) \ UrlsOf(proxies) # {}
    /\ UrlsOf(proxies) \ UrlsOf(ret.pre_pool) # {}

\* C16: when the fetch of the proxy list fails, with a transport error or with a
\* status other than 200, the pool with every record in it and the last-refresh
\* time are as before the call
C16_FailedFetchKeepsPool ==
    ret.fetched /\ ~ret.fetch.ok
    => proxies = ret.pre_pool /\ last_refresh = ret.pre_last_refresh

\* C16 witness: a non-200 answer met a pool holding a record with reports
C16_Witness ==
    /\ ret.fetched /\ ret.fetch = FetchRefused
    /\ Reports(ret.pre_pool) > 0
    /\ proxies = ret.pre_pool
    /\ last_refresh # NoTime

\* the last call was an _ensure_fresh_proxies made at most 300 seconds after the
\* _ensure_fresh_proxies call before it
EnsuredTwice ==
    /\ ret.op = "_ensure_fresh_proxies"
    /\ ret.prev_time # NoTime
    /\ ret.time - ret.prev_time <= 300

\* C17 as stated: of two _ensure_fresh_proxies calls made within 300 seconds of
\* each other at most one fetches the proxy list
C17_Original == EnsuredTwice => ~(ret.prev_fetched /\ ret.fetched)

\* C17: of two _ensure_fresh_proxies calls made within 300 seconds of each other,
\* the second does not fetch the proxy list when the first fetched it and the
\* fetch answered
C17_NoFetchAfterRefresh ==
    EnsuredTwice /\ ret.prev_fetched /\ ret.prev_ok => ~ret.fetched

\* C17 witness: a call refreshed the pool and the next call, made later within
\* the interval, fetched nothing and left the pool alone
C17_Witness ==
    /\ EnsuredTwice
    /\ ret.prev_fetched /\ ret.prev_ok
    /\ ret.time > ret.prev_time
    /\ ~ret.fetched
    /\ proxies = ret.pre_pool /\ proxies # <<>>

----------------------------------------------------------------------------
(* The pool under concurrent calls.  Task k runs initialize or               *)
(* _ensure_fresh_proxies; a call that fetches the proxy list is suspended at *)
(* the request, a call to initialize also while it waits for the lock.       *)

InitLock ==
    /\ InitPool
    /\ free_proxy_manager = TRUE
    /\ free_proxy_enabled = TRUE
    /\ proxy_config = [proxy_enabled |-> FALSE, proxy_url |-> None]
    /\ tokens = <<>>
    /\ token_stats = <<>>
    /\ now = StartTime
    /\ ret = RetNone
    /\ calls = [k \in Tasks |-> NoFrame]
    /\ overlapped = FALSE

\* the tasks inside _refresh_proxy_list, waiting for the answer of the request
Fetching == {k \in Tasks : calls[k].pc = "fetching"}

\* self._lock is held by the initialize call that is inside its `async with`
LockHeld == \E k \in Fetching : calls[k].op = "initialize"

\* a call that returns without fetching
ReturnAtOnce(k, op) ==
    /\ ret' = [RetNone EXCEPT !.op = op, !.token_id = k, !.time = now]
    /\ UNCHANGED calls

\* _ensure_fresh_proxies is called (by get_best_proxy, health_check_all or
\* find_fastest_working_proxy): the test on _last_refresh, then the request
StartEnsureFreshProxies(k) ==
    /\ Idle(k)
    /\ IF NeedsRefresh(last_refresh, now)
       THEN /\ calls' = [calls EXCEPT ![k] = [NoFrame EXCEPT !.pc = "fetching",
                                                 !.op = "_ensure_fresh_proxies"]]
            /\ UNCHANGED ret
       ELSE ReturnAtOnce(k, "_ensure_fresh_proxies")
    /\ UNCHANGED <<poolVars, routerVars, dbVars, now, overlapped>>

\* initialize is called: the test on _initialized, then the lock; with the lock
\* free the call takes it, tests again and sends the request
StartInitialize(k) ==
    /\ Idle(k)
    /\ IF initialized THEN ReturnAtOnce(k, "initialize")
       ELSE /\ calls' = [calls EXCEPT ![k] =
                            [NoFrame EXCEPT !.pc = IF LockHeld THEN "lock" ELSE "fetching",
                                            !.op = "initialize"]]
            /\ UNCHANGED ret
    /\ UNCHANGED <<poolVars, routerVars, dbVars, now, overlapped>>

\* a waiting initialize gets the lock and tests _initialized again
AcquireLock(k) ==
    /\ calls[k].pc = "lock"
    /\ ~LockHeld
    /\ IF initialized
       THEN /\ calls' = [calls EXCEPT ![k] = NoFrame]
            /\ ret' = [RetNone EXCEPT !.op = "initialize", !.token_id = k, !.time = now]
       ELSE /\ calls' = [calls EXCEPT ![k].pc = "fetching"]
            /\ UNCHANGED ret
    /\ UNCHANGED <<poolVars, routerVars, dbVars, now, overlapped>>

\* the request of _refresh_proxy_list is answered and the call runs to its end
FinishRefresh(k, fetch) ==
    /\ calls[k].pc = "fetching"
    /\ \E r \in {RefreshProxyList(Pool, fetch, now)} :
          /\ proxies' = r.proxies
          /\ last_refresh' = r.last_refresh
    /\ initialized' = (initialized \/ calls[k].op = "initialize")
    /\ calls' = [calls EXCEPT ![k] = NoFrame]
    /\ ret' = [RetNone EXCEPT !.op = calls[k].op, !.token_id = k, !.time = now,
                              !.fetch = fetch, !.fetched = TRUE,
                              !.pre_pool = proxies, !.pre_last_refresh = last_refresh]
    /\ UNCHANGED <<routerVars, dbVars, now, overlapped>>

NextLock ==
    \/ Advance
    \/ \E k \in Tasks : StartEnsureFreshProxies(k)
    \/ \E k \in Tasks : StartInitialize(k)
    \/ \E k \in Tasks : AcquireLock(k)
    \/ \E k \in Tasks, fetch \in PoolFetches : FinishRefresh(k, fetch)

SpecLock == InitLock /\ [][NextLock]_vars

\* C18: under any interleaving of _ensure_fresh_proxies and initialize calls at
\* most one call is inside _refresh_proxy_list at any time
C18_OneRefreshAtATime == Cardinality(Fetching) <= 1

\* the reference health score on the scale of HealthNum: the raw score with no
\* probes, else 10 * (0.7 * successRate + 0.3 * (1 - min(1, avg / 10)))
ReferenceNum(p) ==
    IF p.success_count + p.failure_count = 0
    THEN p.score * 100000
    ELSE 7000000 * p.success_count
         + 3000000 * (p.success_count + p.failure_count)
         - 30 * Min(10 * TicksPerSec, p.avg_response_time)
              * (p.success_count + p.failure_count)

\* C19: for every record of the pool health_score equals the reference value:
\* the raw score with no probes, else
\* 10 * (0.7 * successRate + 0.3 * (1 - min(1, avgResponseTimeSeconds / 10)))
C19_HealthScoreReference ==
    \A i \in 1..Len(proxies) : HealthNum(proxies[i]) = ReferenceNum(proxies[i])

----------------------------------------------------------------------------
(* find_fastest_working_proxy on the pool alone *)

\* a list with three proxies that pass the filters
Feed3 ==
    << Entry("socks5", "a", 1080, 10, "elite"),
       Entry("socks5", "b", 1080, 10, "elite"),
       Entry("socks5", "c", 1080, 10, "elite") >>

\* the answers of a, b and c to their probes
Answers(a, b, c) ==
    [u \in PoolUrls |-> IF u = "socks5://a:1080" THEN a
                        ELSE IF u = "socks5://b:1080" THEN b ELSE c]

FastestEnvs ==
    [fetch : {FetchFailed, [ok |-> TRUE, data |-> Feed1], [ok |-> TRUE, data |-> Feed3]},
     resp : {Answers(Refused, TimedOut, Refused), Answers(TimedOut, Slow, Fast),
             Answers(Fast, Slow, Refused), Answers(Slow, Fast, Slow),
             Answers(Slow, Refused, Slow)}]

CallFindFastestWorkingProxy(exclude_urls, max_test, env) ==
    /\ PoolBudget
    /\ FetchRead(env)
    /\ \E r \in {FindFastestWorkingProxy(Pool, exclude_urls, max_test, env, now)} :
          /\ proxies' = r.proxies
          /\ last_refresh' = r.last_refresh
          /\ ret' = [PoolRet("find_fastest_working_proxy", r.url) EXCEPT
                        !.probed = r.probed, !.response_time = r.response_time,
                        !.excluded = exclude_urls, !.resp = env.resp]
    /\ UNCHANGED <<initialized, routerVars, dbVars, now, calls, overlapped>>

NextFastest ==
    \E exclude_urls \in {{}, {"socks5://a:1080"}}, max_test \in {1, MAX_TEST},
       env \in FastestEnvs :
       CallFindFastestWorkingProxy(exclude_urls, max_test, env)

SpecFastest == InitPoolOnly /\ [][NextFastest]_vars

Raced == ret.op = "find_fastest_working_proxy"
\* the probed candidates whose probe answered 200
Answered200 ==
    {u \in {ret.probed[i] : i \in 1..Len(ret.probed)} : ret.resp[u].status = 200}

\* C20: find_fastest_working_proxy returns none exactly when no probed candidate
\* answered 200; otherwise it returns a candidate whose own probe answered 200,
\* with that probe's response time, and no candidate that answered 200 was
\* strictly faster
C20_FastestWorking ==
    Raced
    => /\ ret.url = None <=> Answered200 = {}
       /\ ret.url # None
          => /\ ret.url \in Answered200
             /\ ret.response_time = ret.resp[ret.url].time
             /\ \A v \in Answered200 : ret.resp[v].time >= ret.resp[ret.url].time

\* C20 witness: of three probed candidates one failed, one answered 200 in 0.5 s
\* and a later one answered 200 in 0.2 s, which is the one returned
C20_Witness ==
    /\ Raced
    /\ Len(ret.probed) = 3
    /\ \E i, j, k \in 1..3 :
          /\ i < j
          /\ ret.resp[ret.probed[k]].status # 200
          /\ ret.resp[ret.probed[i]] = Slow
          /\ ret.resp[ret.probed[j]] = Fast
          /\ ret.url = ret.probed[j]
    /\ ret.response_time = Fast.time

\* the number of reports a record has received
Probes(p) == p.success_count + p.failure_count

\* the last call was a health_check_proxy for a url of the pool
Probed == ret.op = "health_check_proxy" /\ InPool(ret.pre_pool, ret.url)

\* C21: health_check_proxy(url) makes exactly one report for that url: one more
\* success when the answer has status 200, one more failure for any other
\* status or a transport exception; it returns true exactly in the 200 case and
\* leaves the other records alone
C21_ProbeReportsOnce ==
    /\ ret.op = "health_check_proxy" => (ret.valid <=> ret.status = 200)
    /\ Probed
       => LET p == Lookup(ret.pre_pool, ret.url)
              q == Lookup(proxies, ret.url)
          IN /\ Probes(q) = Probes(p) + 1
             /\ q.success_count = p.success_count + (IF ret.status = 200 THEN 1 ELSE 0)
             /\ q.failure_count = p.failure_count + (IF ret.status = 200 THEN 0 ELSE 1)
             /\ \A i \in 1..Len(proxies) :
                   proxies[i].url # ret.url => proxies[i] = ret.pre_pool[i]

\* C21 witness: a probe that ended in a transport exception returned false and
\* left one more failure on its record
C21_Witness ==
    /\ Probed
    /\ ret.status = TimedOut.status
    /\ ~ret.valid
    /\ Lookup(proxies, ret.url).failure_count
          = Lookup(ret.pre_pool, ret.url).failure_count + 1

(***************************************************************************)
(* Registration: add_token and update_existing_token                       *)

\* the email of the "https://api.openai.com/profile" claim of a payload, None
\* when the payload has no such claim
JwtEmail(access_token) ==
    IF access_token = "at_new" THEN "hint@jwt" ELSE None

\* email.split("@")[0] if email else ""
LocalPart(email) ==
    CASE email = "hint@jwt" -> "hint"
      [] email = "live@api" -> "live"
      [] email = "arg@cli"  -> "arg"
      [] OTHER              -> ""

\* x or y
OrElse(x, y) == IF x # None /\ x # "" THEN x ELSE y

TokenExpiredMessage == "Token expired"
FailedSubscription == "Failed to get subscription info"
TokenExists == "Token exists"
InvalidJwt == "Invalid JWT token"

\* get_subscription_info: a non-200 answer raises, with a message of its own
\* when the body's error code is token_expired
GetSubscriptionInfo(reply) ==
    IF reply.status = 200
    THEN [ok |-> TRUE, error |-> None, plan_type |-> reply.value]
    ELSE [ok |-> FALSE,
          error |-> IF reply.code = "token_expired"
                    THEN TokenExpiredMessage ELSE FailedSubscription,
          plan_type |-> None]

MAX_USERNAME_ATTEMPTS == 5

\* the username check of add_token: the attempts made at claiming a generated
\* username; claim is what every attempt meets
UsernameAttempts(me2, claim) ==
    IF ~GetUserInfo(me2).ok THEN 0
    ELSE IF me2.value.username # None THEN 0
    ELSE IF claim = "set" THEN 1
    ELSE MAX_USERNAME_ATTEMPTS

\* db.add_token: the row is stored under a new id
DbAddToken(toks, row) ==
    With(IF DOMAIN toks = {} THEN 1
         ELSE 1 + CHOOSE i \in DOMAIN toks : \A j \in DOMAIN toks : j <= i,
         LAMBDA id : [id |-> id, tokens |-> [i \in DOMAIN toks \cup {id} |->
                                                IF i = id THEN row ELSE toks[i]]])

\* the ids of the rows holding the access token: db.get_token_by_value
IdsByValue(toks, token_value) == {i \in DOMAIN toks : toks[i].token = token_value}

Aborted(toks, error) ==
    [ok |-> FALSE, error |-> error, tokens |-> toks, id |-> NoId, username_attempts |-> 0]

\* update_existing_token: every failure of the account API is tolerated
UpdateExistingToken(toks, token_id, token_value, st, rt, env) ==
    IF ~DecodeJwt(token_value).ok THEN Aborted(toks, InvalidJwt)
    ELSE [ok |-> TRUE, error |-> None, id |-> token_id, username_attempts |-> 0,
          tokens |-> DbUpdateToken(toks, token_id, token_value, st, rt,
                                   DecodeJwt(token_value).exp,
                                   GetSubscriptionInfo(env.sub).plan_type)]

\* the row add_token builds once no call has raised
NewRow(token_value, st, rt, proxy_url, email, name, plan, invite, remaining_count) ==
    [email |-> email, name |-> name]
    @@ [TokenRow(proxy_url) EXCEPT
           !.token = token_value, !.st = st, !.rt = rt,
           !.expiry_time = DecodeJwt(token_value).exp,
           !.plan = plan,
           !.sora2_supported = invite.supported,
           !.sora2_invite = invite.invite_code,
           !.sora2_remaining_count = remaining_count]

Stored(toks, row, username_attempts) ==
    With(DbAddToken(toks, row),
         LAMBDA a : [ok |-> TRUE, error |-> None, tokens |-> a.tokens, id |-> a.id,
                     username_attempts |-> username_attempts])

NoInvite == [ok |-> TRUE, error |-> None, supported |-> FALSE, invite_code |-> None]

\* add_token after its proxy lookups; sora2_supported is stored by its truth value
AddTokenOnline(toks, token_value, st, rt, proxy_url, env) ==
    LET me      == GetUserInfo(env.me)
        hint    == OrElse(JwtEmail(token_value), "")
        email   == IF me.ok THEN (IF env.me.value.email # None
                                  THEN env.me.value.email ELSE hint)
                   ELSE hint
        name    == IF me.ok THEN OrElse(env.me.value.name, "") ELSE LocalPart(email)
        sub     == GetSubscriptionInfo(env.sub)
        invite  == GetSora2InviteCode(env.invite)
        remaining_count ==
            IF invite.ok /\ invite.supported /\ env.remaining.status = 200
            THEN env.remaining.value.remaining_count ELSE 0
    IN  IF ~sub.ok /\ sub.error = TokenExpiredMessage THEN Aborted(toks, sub.error)
        ELSE IF ~invite.ok /\ invite.error = UnsupportedCountry
        THEN Aborted(toks, invite.error)
        ELSE Stored(toks,
                    NewRow(token_value, st, rt, proxy_url, email, name, sub.plan_type,
                           IF invite.ok THEN invite ELSE NoInvite, remaining_count),
                    UsernameAttempts(env.me2, env.claim))

AddToken(toks, token_value, st, rt, proxy_url, update_if_exists, skip_status_update, email, env) ==
    IF IdsByValue(toks, token_value) # {}
    THEN IF ~update_if_exists THEN Aborted(toks, TokenExists)
         ELSE UpdateExistingToken(toks, CHOOSE i \in IdsByValue(toks, token_value) : TRUE,
                                  token_value, st, rt, env)
    ELSE IF ~DecodeJwt(token_value).ok THEN Aborted(toks, InvalidJwt)
    ELSE IF skip_status_update
    THEN With(OrElse(email, OrElse(JwtEmail(token_value), "")),
              LAMBDA e : Stored(toks, NewRow(token_value, st, rt, proxy_url, e,
                                             LocalPart(e), None, NoInvite, -1), 0))
    ELSE AddTokenOnline(toks, token_value, st, rt, proxy_url, env)

\* the answers of /me during registration: with and without a live identity
MeLive == Reply(200, None, [email |-> "live@api", name |-> "Live", username |-> "live1"])
MeBare == Reply(200, None, [email |-> None, name |-> None, username |-> None])
RegisterSubReplies ==
    SubReplies \cup {Reply(401, "token_expired", None), Reply(401, "token_invalidated", None)}

\* an answer is drawn only for a call add_token makes
RegisterEnvs ==
    {[me |-> me, sub |-> sub, invite |-> invite, remaining |-> remaining,
      me2 |-> me2, claim |-> claim] :
        me \in {MeLive, MeBare, MeInvalidated, QuietReply},
        sub \in RegisterSubReplies,
        invite \in InviteReplies,
        remaining \in RemainingReplies,
        me2 \in {MeLive, MeBare, QuietReply},
        claim \in {"set", "taken"}}

RegisterEnvsFor(skip_status_update) ==
    {env \in RegisterEnvs :
        /\ skip_status_update
           => env = [me |-> QuietReply, sub |-> QuietReply, invite |-> QuietReply,
                     remaining |-> QuietReply, me2 |-> QuietReply, claim |-> "taken"]
        /\ env.invite # InviteOk => env.remaining = QuietReply
        /\ env.me2 # MeBare => env.claim = "taken"}

InitRegister ==
    /\ InitPool
    /\ free_proxy_manager = FALSE
    /\ free_proxy_enabled = FALSE
    /\ proxy_config = [proxy_enabled |-> FALSE, proxy_url |-> None]
    /\ tokens = [i \in {1} |-> [TokenRow(None) EXCEPT !.token = "at_rt"]]
    /\ token_stats = [i \in {1} |-> StatsRow]
    /\ now = StartTime
    /\ ret = RetNone
    /\ calls = [k \in Tasks |-> NoFrame]
    /\ overlapped = FALSE

CallAddToken(token_value, update_if_exists, skip_status_update, email, env) ==
    /\ ret.seq < MaxCalls
    /\ \E r \in {AddToken(tokens, token_value, "st1", None, None, update_if_exists,
                          skip_status_update, email, env)} :
          /\ tokens' = r.tokens
          /\ ret' = [RetNone EXCEPT
                        !.op = "add_token", !.token_id = r.id, !.valid = r.ok,
                        !.message = r.error,
                        !.username_attempts = r.username_attempts,
                        !.request = [token_value |-> token_value,
                                     update_if_exists |-> update_if_exists,
                                     skip_status_update |-> skip_status_update,
                                     email |-> email, env |-> env,
                                     pre_tokens |-> tokens],
                        !.time = now, !.seq = ret.seq + 1]
    /\ UNCHANGED <<poolVars, routerVars, proxy_config, token_stats, now, calls, overlapped>>

NextRegister ==
    \E token_value \in {"at_new", "at_noexp", "at_rt", "at_bad"},
       update_if_exists, skip_status_update \in BOOLEAN, email \in {None, "arg@cli"} :
       \E env \in RegisterEnvsFor(skip_status_update) :
          /\ ~skip_status_update => email = None
          /\ CallAddToken(token_value, update_if_exists, skip_status_update, email, env)

SpecRegister == InitRegister /\ [][NextRegister]_vars

\* the last call was an add_token that went to the account API: the access
\* token was not stored before, it decodes, and the call was not offline
Registering ==
    /\ ret.op = "add_token"
    /\ IdsByValue(ret.request.pre_tokens, ret.request.token_value) = {}
    /\ DecodeJwt(ret.request.token_value).ok
    /\ ~ret.request.skip_status_update

\* an answer said the credential is invalidated or expired, or the region is
\* not supported
FatalAnswer(env) ==
    \/ env.me.code = "token_invalidated"
    \/ env.sub.code \in {"token_invalidated", "token_expired"}
    \/ env.invite.code = "unsupported_country_code"

\* the live identity, or the hint embedded in the access token where it is missing
IdentityOf(token_value, env) ==
    IF env.me.status = 200 /\ env.me.value.email # None THEN env.me.value.email
    ELSE OrElse(JwtEmail(token_value), "")

\* C22: a registration that meets an answer saying the credential is invalidated
\* or expired, or the region unsupported, ends in an error and stores no row;
\* any other registration stores the row, with the live identity or else the
\* identity hint of the access token
C22_FatalAnswersAbort ==
    Registering
    => IF FatalAnswer(ret.request.env)
       THEN ~ret.valid /\ tokens = ret.request.pre_tokens
       ELSE /\ ret.valid
            /\ ret.token_id \in DOMAIN tokens \ DOMAIN ret.request.pre_tokens
            /\ tokens[ret.token_id].token = ret.request.token_value
            /\ tokens[ret.token_id].email
                  = IdentityOf(ret.request.token_value, ret.request.env)

(***************************************************************************)
(* The router's failure reports: get_proxy_url binds, the pool is refreshed *)
(* as the clock moves, report_proxy_failure rebinds.  No credential starts  *)
(* with a url of the free list, so a bound url of the free list was bound   *)
(* from the pool.                                                           *)

InitRouteReport ==
    /\ InitPool
    /\ free_proxy_manager = FALSE
    /\ free_proxy_enabled = FALSE
    /\ proxy_config = [proxy_enabled |-> FALSE, proxy_url |-> None]
    /\ \E u1 \in {None, OperatorUrl} :
          tokens = [i \in TokenIds |-> TokenRow(IF i = 1 THEN u1 ELSE None)]
    /\ token_stats = [i \in TokenIds |-> StatsRow]
    /\ now = StartTime
    /\ ret = RetNone
    /\ calls = <<>>
    /\ overlapped = FALSE

NextRouteReport ==
    \/ \E enabled \in BOOLEAN : SetFreeProxyManager(enabled)
    \/ UpdateProxyConfig(TRUE, GlobalUrl)
    \/ Tick
    \/ \E id \in TokenIds, env \in RouteEnvs : CallGetProxyUrl(id, None, env)
    \/ \E id \in CallIds, env \in RouteEnvs : CallReportProxyFailure(id, env)

SpecRouteReport == InitRouteReport /\ [][NextRouteReport]_vars

\* the last call was a report_proxy_failure for a stored credential
FailureRouted == ret.op = "report_proxy_failure" /\ ret.pre_exists

\* C23: report_proxy_failure starts a rebind exactly when the credential's
\* bound proxy came from the free pool; a credential bound to any other url,
\* or to none, is not rebound and keeps its binding
C23_RebindIffFromPool ==
    FailureRouted
    => /\ ret.started <=> ret.pre_proxy \in PoolUrls
       /\ ret.pre_proxy \notin PoolUrls
          => ~ret.started /\ ProxyOf(tokens, ret.token_id) = ret.pre_proxy

\* the last call was a report for a url the pool did not hold
ReportedUnknown ==
    /\ ret.op \in {"report_success", "report_failure"}
    /\ ~InPool(ret.pre_pool, ret.url)

\* C24: report_failure and report_success for a url that is not in the pool
\* change nothing: no record is added and every record keeps its counters,
\* timestamps and health flag
C24_UnknownUrlNoOp ==
    ReportedUnknown => proxies = ret.pre_pool

\* C24 witness: a failure reported for an unknown url while the pool holds
\* records, one of them reported on before
C24_Witness ==
    /\ ReportedUnknown
    /\ ret.op = "report_failure"
    /\ \E i \in 1..Len(proxies) : Probes(proxies[i]) > 0

(***************************************************************************)
(* The exchanges of a refresh: auto_refresh_expiring_token and test_token  *)
(* on one stored token                                                     *)

NextExchange ==
    \/ \E token_id \in Callable({1}) :
          \E env \in RefreshEnvs(RowOf(tokens, token_id)) :
             CallAutoRefreshExpiringToken(token_id, env)
    \/ \E token_id \in Callable({1}) :
          \E env \in TestEnvsWith(RowOf(tokens, token_id), RefreshAccountEnvs) :
             CallTestToken(token_id, env)

SpecExchange == InitRefresh /\ [][NextExchange]_vars

\* the exchange gave an access token; the access token decodes as well
Gave(x) == x[2].ok
Usable(x) == x[2].ok /\ DecodeJwt(x[2].access_token).ok

\* the place of the first exchange of seq that gave an access token / a usable
\* one, 0 when there is none
FirstGave(seq) ==
    IF \E i \in 1..Len(seq) : Gave(seq[i])
    THEN CHOOSE i \in 1..Len(seq) : Gave(seq[i]) /\ \A j \in 1..(i - 1) : ~Gave(seq[j])
    ELSE 0
FirstUsable(seq) ==
    IF \E i \in 1..Len(seq) : Usable(seq[i])
    THEN CHOOSE i \in 1..Len(seq) : Usable(seq[i]) /\ \A j \in 1..(i - 1) : ~Usable(seq[j])
    ELSE 0

\* the exchanges auto_refresh_expiring_token makes itself end with the first
\* that gave an access token; those after it are made by the test_token that
\* update_token runs
OwnExchanges ==
    IF FirstGave(ret.exchanges) = 0 THEN ret.exchanges
    ELSE SubSeq(ret.exchanges, 1, FirstGave(ret.exchanges))
PreTestExchanges ==
    IF ret.op = "test_token" THEN ret.exchanges
    ELSE IF FirstGave(ret.exchanges) = 0 THEN <<>>
    ELSE SubSeq(ret.exchanges, FirstGave(ret.exchanges) + 1, Len(ret.exchanges))

\* a refresh ran: a test_token of a stored token, or an auto refresh that was due
RefreshRan ==
    /\ ret.op \in {"test_token", "auto_refresh_expiring_token"}
    /\ ret.pre_exists
    /\ ret.op = "auto_refresh_expiring_token" => RefreshDue

\* in one round of exchanges the ST goes first, and the RT is exchanged only
\* when there is no ST or the ST's exchange did not pass
RoundOrdered(seq, st, Passed(_)) ==
    /\ Len(seq) <= 2
    /\ \A i \in 1..Len(seq) :
          /\ seq[i][1] = "st" => i = 1 /\ st # None
          /\ seq[i][1] = "rt" => IF st = None THEN i = 1
                                 ELSE i = 2 /\ seq[1][1] = "st" /\ ~Passed(seq[1])

\* C25 as stated: the ST's exchange goes before the RT's, the RT is exchanged
\* only when there is no ST or its exchange failed, and the access token stored
\* is the one of the first exchange that succeeded
C25_Original ==
    RefreshRan
    => /\ RoundOrdered(OwnExchanges, ret.pre_row.st, Gave)
       /\ RoundOrdered(PreTestExchanges, ret.pre_row.st, Gave)
       /\ FirstGave(ret.exchanges) # 0
          => tokens[ret.token_id].token
                = ret.exchanges[FirstGave(ret.exchanges)][2].access_token

\* C25: in each round the ST's exchange goes before the RT's; the RT is
\* exchanged only when there is no ST, its exchange failed or, in test_token,
\* its access token did not decode; test_token stores the first access token
\* that decodes; auto_refresh_expiring_token stores the access token of its
\* first exchange that succeeded and then runs test_token, so that the access
\* token stored at its return is the one test_token's round stored, and its
\* own only when that round stored none
C25_LastRoundStored ==
    RefreshRan
    => /\ ret.op = "auto_refresh_expiring_token"
          => RoundOrdered(OwnExchanges, ret.pre_row.st, Gave)
       /\ RoundOrdered(PreTestExchanges, ret.pre_row.st, Usable)
       /\ tokens[ret.token_id].token
             = IF FirstUsable(PreTestExchanges) # 0
               THEN PreTestExchanges[FirstUsable(PreTestExchanges)][2].access_token
               ELSE IF ret.op = "auto_refresh_expiring_token"
                       /\ FirstGave(ret.exchanges) # 0
               THEN ret.exchanges[FirstGave(ret.exchanges)][2].access_token
               ELSE ret.pre_row.token

\* C25 witness: an auto refresh whose ST exchange failed and whose RT exchange
\* succeeded, followed by a test_token round whose ST exchange gave another
\* access token, which is the one stored
C25_Witness ==
    /\ RefreshRan
    /\ ret.op = "auto_refresh_expiring_token"
    /\ Len(OwnExchanges) = 2
    /\ OwnExchanges[2][1] = "rt"
    /\ FirstUsable(PreTestExchanges) # 0
    /\ PreTestExchanges[1][2].access_token # OwnExchanges[2][2].access_token
    /\ tokens[ret.token_id].token = PreTestExchanges[1][2].access_token

\* the last call was a cooldown refresh for a stored token; the cooldown of
\* the row it found was set and reached
CooldownRefreshed ==
    ret.op = "refresh_sora2_remaining_if_cooldown_expired" /\ ret.pre_exists
CooldownReached ==
    /\ ret.pre_row.sora2_cooldown_until # NoTime
    /\ ret.pre_row.sora2_cooldown_until <= ret.time

\* C26: refresh_sora2_remaining_if_cooldown_expired changes the row only when
\* the cooldown is set, the clock has reached it and the remaining-count query
\* answered, and then it stores the count and clears the cooldown; with the
\* cooldown unset or ahead it asks nothing and changes nothing; when the query
\* fails the cooldown stays as it was
C26_CooldownRefresh ==
    CooldownRefreshed
    => /\ tokens[ret.token_id] # ret.pre_row
          => CooldownReached /\ ret.queried /\ ret.status = 200
       /\ ~CooldownReached => ~ret.queried /\ tokens[ret.token_id] = ret.pre_row
       /\ ret.queried /\ ret.status # 200
          => tokens[ret.token_id].sora2_cooldown_until = ret.pre_row.sora2_cooldown_until
       /\ ret.queried /\ ret.status = 200
          => /\ tokens[ret.token_id].sora2_cooldown_until = NoTime
             /\ tokens[ret.token_id].sora2_remaining_count = ret.remaining_count

\* C26 witness: the cooldown was reached, the query answered, and the row has
\* the count it gave and no cooldown
C26_Witness ==
    /\ CooldownRefreshed
    /\ CooldownReached
    /\ ret.queried /\ ret.status = 200
    /\ tokens[ret.token_id].sora2_cooldown_until = NoTime
    /\ tokens[ret.token_id].sora2_remaining_count # ret.pre_row.sora2_remaining_count

(***************************************************************************)
(* The consecutive-error count under record_error and record_success alone; *)
(* ret.since_success is the number of record_error calls for token 1 that   *)
(* were not overloads since its last record_success                         *)

TallyRecordError(token_id, is_overload) ==
    /\ token_stats[1].error_count < MaxErrors
    /\ \E r \in {RecordError(tokens, token_stats, token_id, is_overload, ErrorBanThreshold)} :
          /\ tokens' = r.tokens
          /\ token_stats' = r.token_stats
    /\ ret' = [TokenRet("record_error", token_id) EXCEPT
                  !.is_overload = is_overload,
                  !.since_success = IF token_id = 1 /\ ~is_overload
                                    THEN ret.since_success + 1 ELSE ret.since_success]
    /\ UNCHANGED <<poolVars, routerVars, proxy_config, now, calls, overlapped>>

TallyRecordSuccess(token_id, is_video, env) ==
    /\ token_stats' = DbResetErrorCount(token_stats, token_id)
    /\ \E s \in {RecordSuccess(StoreNow, RouterConfig, token_id, is_video, env, now)} :
          /\ proxies' = s.proxies
          /\ last_refresh' = s.last_refresh
          /\ initialized' = s.initialized
          /\ tokens' = s.tokens
    /\ ret' = [TokenRet("record_success", token_id) EXCEPT
                  !.is_video = is_video,
                  !.since_success = IF token_id = 1 THEN 0 ELSE ret.since_success]
    /\ UNCHANGED <<routerVars, proxy_config, now, calls, overlapped>>

NextTally ==
    \/ \E token_id \in {1, MissingId}, is_overload \in BOOLEAN :
          TallyRecordError(token_id, is_overload)
    \/ \E token_id \in {1, MissingId}, is_video \in BOOLEAN,
          env \in {[QuietEnv EXCEPT !.remaining = r] : r \in {Remaining(5, 0), QuietReply}} :
          TallyRecordSuccess(token_id, is_video, env)

SpecTally == InitUsage /\ [][NextTally]_vars

\* C27: after any sequence of record_error and record_success calls the
\* token's consecutive error count is the number of record_error calls that
\* were not overloads since its last record_success, or since the start
C27_ConsecutiveCount ==
    token_stats[1].consecutive_error_count = ret.since_success

\* C27 witness: four errors were recorded, the last one an overload, and one
\* error that was no overload came after the last success
C27_Witness ==
    /\ ret.op = "record_error" /\ ret.token_id = 1
    /\ ret.is_overload
    /\ token_stats[1].error_count = MaxErrors
    /\ ret.since_success = 1
    /\ token_stats[1].consecutive_error_count = 1

(***************************************************************************)
(* health_score on pairs of records                                        *)

MaxCount == 2

\* average response times: none, 0.2 s, 5 s, the 10 s where the penalty is
\* capped, and beyond it
ScoredTimes == {0, Fast.time, Slow.time, 10 * TicksPerSec, 15 * TicksPerSec}

ScoredRecords ==
    {[NewProxyInfo("socks5://a:1080", Entry("socks5", "a", 1080, 10, "elite")) EXCEPT
         !.success_count = sc, !.failure_count = fc, !.avg_response_time = avg] :
        sc \in 0..MaxCount, fc \in 0..MaxCount, avg \in ScoredTimes}

InitScore ==
    /\ \E p, q \in ScoredRecords : proxies = <<p, q>>
    /\ last_refresh = NoTime
    /\ initialized = FALSE
    /\ free_proxy_manager = TRUE
    /\ free_proxy_enabled = TRUE
    /\ proxy_config = [proxy_enabled |-> FALSE, proxy_url |-> None]
    /\ tokens = <<>>
    /\ token_stats = <<>>
    /\ now = StartTime
    /\ ret = RetNone
    /\ calls = <<>>
    /\ overlapped = FALSE

\* p.health_score against q.health_score
CompareHealthScore ==
    /\ ret.op = "none"
    /\ ret' = [RetNone EXCEPT
                  !.op = "health_score",
                  !.order = IF HealthGreater(proxies[1], proxies[2]) THEN "greater"
                            ELSE IF HealthGreater(proxies[2], proxies[1]) THEN "less"
                            ELSE "equal"]
    /\ UNCHANGED <<poolVars, routerVars, dbVars, now, calls, overlapped>>

SpecScore == InitScore /\ [][CompareHealthScore]_vars

\* both records of the pair have been probed
BothProbed == Probes(proxies[1]) > 0 /\ Probes(proxies[2]) > 0
SameCounts ==
    /\ proxies[1].success_count = proxies[2].success_count
    /\ proxies[1].failure_count = proxies[2].failure_count
\* the success rate of p is at least that of q
RateAtLeast(p, q) == p.success_count * Probes(q) >= q.success_count * Probes(p)

\* C28: among probed records, with the counts equal a record with the smaller
\* or equal average response time has a health_score at least as high, and
\* with the average response time equal a record with the higher or equal
\* success rate has a health_score at least as high
C28_HealthScoreMonotone ==
    ret.op = "health_score" /\ BothProbed
    => /\ SameCounts /\ proxies[1].avg_response_time <= proxies[2].avg_response_time
          => ret.order # "less"
       /\ /\ proxies[1].avg_response_time = proxies[2].avg_response_time
          /\ RateAtLeast(proxies[1], proxies[2])
          => ret.order # "less"

\* C28 witness: two probed records with the same counts, the first one faster
\* and scored higher
C28_Witness ==
    /\ ret.op = "health_score" /\ BothProbed /\ SameCounts
    /\ proxies[1].avg_response_time = Fast.time
    /\ proxies[2].avg_response_time = Slow.time
    /\ ret.order = "greater"

(***************************************************************************)
(* _get_healthy_proxies on the pool as refreshes and reports leave it       *)

CallGetHealthyProxies ==
    /\ ret' = [PoolRet("get_healthy_proxies", None) EXCEPT
                  !.healthy = GetHealthyProxies(proxies)]
    /\ UNCHANGED <<poolVars, routerVars, dbVars, now, calls, overlapped>>

\* a list with an elite, a transparent and an anonymous proxy, the transparent
\* one scored highest
FeedMixed ==
    << Entry("socks5", "a", 1080, 10, "elite"),
       Entry("socks5", "b", 1080, 20, "transparent"),
       Entry("socks5", "c", 1080, 10, "anonymous") >>

NextHealthy ==
    \/ \E data \in {FeedMixed, Feed2} : CallRefreshProxyList([ok |-> TRUE, data |-> data])
    \/ \E url \in PoolUrls : CallReportSuccess(url, Fast.time)
    \/ \E url \in PoolUrls : CallReportFailure(url)
    \/ CallGetHealthyProxies

SpecHealthy == InitPoolOnly /\ [][NextHealthy]_vars

\* C29: _get_healthy_proxies returns exactly the records of the pool whose
\* health flag is set, each once, every record of a preferred anonymity before
\* every other record, and within each of the two groups no record before one
\* of lower health_score
C29_HealthyOrdered ==
    ret.op = "get_healthy_proxies"
    => LET h == ret.healthy
       IN /\ {h[i] : i \in 1..Len(h)} = {proxies[i] : i \in {k \in 1..Len(proxies) :
                                                              proxies[k].is_healthy}}
          /\ \A i, j \in 1..Len(h) : i # j => h[i].url # h[j].url
          /\ \A i, j \in 1..Len(h) :
                i < j => /\ Preferred(h[j]) => Preferred(h[i])
                         /\ Preferred(h[i]) = Preferred(h[j]) => ~HealthGreater(h[j], h[i])

\* C29 witness: an unhealthy record is left out, and a record of a preferred
\* anonymity stands before a record of another anonymity that scores higher
C29_Witness ==
    /\ ret.op = "get_healthy_proxies"
    /\ Len(ret.healthy) < Len(proxies)
    /\ \E i, j \in 1..Len(ret.healthy) :
          /\ i < j
          /\ Preferred(ret.healthy[i]) /\ ~Preferred(ret.healthy[j])
          /\ HealthGreater(ret.healthy[j], ret.healthy[i])

(***************************************************************************)
(* The average response time under report_success with samples of 0, 0.2 s *)
(* and 5 s                                                                 *)

NextSmooth ==
    \/ \E data \in {Feed1, Feed2} : CallRefreshProxyList([ok |-> TRUE, data |-> data])
    \/ \E url \in ReportUrls, response_time \in {0, Fast.time, Slow.time} :
          CallReportSuccess(url, response_time)
    \/ \E url \in ReportUrls : CallReportFailure(url)

SpecSmooth == InitPoolOnly /\ [][NextSmooth]_vars

\* C30: for a url of the pool the first report_success sets the average
\* response time to the sample and every later one sets it to 0.7 times the
\* average before plus 0.3 times the sample, whatever the sample, 0 included;
\* each report_success adds one to success_count and sets the health flag.
\* Times are whole ticks, the smoothed value rounded down to a tick.
C30_Smoothing ==
    ret.op = "report_success" /\ InPool(ret.pre_pool, ret.url)
    => LET p == Lookup(ret.pre_pool, ret.url)
           q == Lookup(proxies, ret.url)
       IN /\ q.success_count = p.success_count + 1
          /\ q.is_healthy
          /\ q.avg_response_time
                = IF p.success_count = 0 THEN ret.response_time
                  ELSE (7 * p.avg_response_time + 3 * ret.response_time) \div 10

(***************************************************************************)
(* batch_health_check and find_fastest_working_proxy, task by task.  The    *)
(* call builds one task per selected url and gathers them; a task enters    *)
(* `async with semaphore`, is suspended at its request, and on the answer   *)
(* reports to the pool and leaves the semaphore.  calls holds the call in   *)
(* flight: its tasks in order, where each one is, and the answers received. *)

MaxConcurrent == 2       \* the largest max_concurrent a call is made with

NoBatch ==
    [op |-> "none", max_concurrent |-> 0, max_test |-> 0, exclude |-> {}, tasks |-> <<>>,
     pc |-> <<>>, resp |-> [u \in PoolUrls |-> TimedOut], start_pool |-> <<>>]

\* the tasks holding the semaphore, suspended at session.get
InFlight(c) == {i \in 1..Len(c.tasks) : c.pc[i] = "request"}
\* the tasks queued on the semaphore
Waiting(c) == {i \in 1..Len(c.tasks) : c.pc[i] = "waiting"}
\* the tasks that have reported and returned
Returned(c) == {i \in 1..Len(c.tasks) : c.pc[i] \in {"true", "false"}}

\* a semaphore that lets every task in
SemaphoreOpen(c) == TRUE

\* asyncio.Semaphore(max_concurrent): acquire passes while the value is above 0
SemaphoreFree(c) == Cardinality(InFlight(c)) < c.max_concurrent

\* the urls batch_health_check probes: the keys of the pool
BatchTargets(pool) == [i \in 1..Len(pool) |-> pool[i].url]

\* the urls find_fastest_working_proxy probes
ProxiesToTest(pool, exclude_urls, max_test) ==
    LET cands == SelectSeq(GetHealthyProxies(pool), LAMBDA q : q.url \notin exclude_urls)
    IN [i \in 1..Min(max_test, Len(cands)) |-> cands[i].url]

\* asyncio.gather on the tasks of a call
Gather(op, max_concurrent, max_test, exclude_urls, targets, pool) ==
    [NoBatch EXCEPT !.op = op, !.max_concurrent = max_concurrent, !.max_test = max_test,
                    !.exclude = exclude_urls, !.tasks = targets,
                    !.pc = [i \in 1..Len(targets) |-> "waiting"],
                    !.start_pool = pool]

\* batch_health_check is called: the freshness check, then one task per url
StartBatchHealthCheck(max_concurrent, fetch) ==
    /\ calls.op = "none"
    /\ Budget
    /\ fetch.ok \/ NeedsRefresh(last_refresh, now)
    /\ \E fresh \in {EnsureFreshProxies(Pool, fetch, now)} :
          /\ proxies' = fresh.proxies
          /\ last_refresh' = fresh.last_refresh
          /\ calls' = Gather("batch_health_check", max_concurrent, Len(fresh.proxies), {},
                             BatchTargets(fresh.proxies), fresh.proxies)
    /\ ret' = [RetNone EXCEPT !.op = "gather", !.time = now]
    /\ UNCHANGED <<initialized, routerVars, dbVars, now, overlapped>>

\* find_fastest_working_proxy is called: with nothing to test it returns none
StartFindFastestWorkingProxy(exclude_urls, max_test, max_concurrent, fetch) ==
    /\ calls.op = "none"
    /\ Budget
    /\ fetch.ok \/ NeedsRefresh(last_refresh, now)
    /\ \E fresh \in {EnsureFreshProxies(Pool, fetch, now)} :
       \E targets \in {ProxiesToTest(fresh.proxies, exclude_urls, max_test)} :
          /\ proxies' = fresh.proxies
          /\ last_refresh' = fresh.last_refresh
          /\ IF targets = <<>>
             THEN /\ calls' = NoBatch
                  /\ ret' = [RetNone EXCEPT !.op = "find_fastest_working_proxy",
                                !.excluded = exclude_urls, !.time = now,
                                !.pre_pool = fresh.proxies]
             ELSE /\ calls' = Gather("find_fastest_working_proxy", max_concurrent,
                                     max_test, exclude_urls, targets, fresh.proxies)
                  /\ ret' = [RetNone EXCEPT !.op = "gather", !.time = now]
    /\ UNCHANGED <<initialized, routerVars, dbVars, now, overlapped>>

\* the first task queued on the semaphore enters and sends its request
EnterSemaphore ==
    /\ Waiting(calls) # {}
    /\ SemaphoreFree(calls)
    /\ \E i \in {CHOOSE j \in Waiting(calls) : \A k \in Waiting(calls) : j <= k} :
          calls' = [calls EXCEPT !.pc[i] = "request"]
    /\ ret' = [RetNone EXCEPT !.op = "enter", !.time = now]
    /\ UNCHANGED <<poolVars, routerVars, dbVars, now, overlapped>>

\* the request of task i is answered or raises: the task reports to the pool,
\* returns and leaves the semaphore
ProbeAnswered(i, answer) ==
    /\ i \in InFlight(calls)
    /\ \E check \in {HealthCheckProxy(proxies, calls.tasks[i], answer, now)} :
          /\ proxies' = check.proxies
          /\ calls' = [calls EXCEPT
                          !.pc[i] = IF check.working THEN "true" ELSE "false",
                          !.resp[calls.tasks[i]] = answer]
    /\ ret' = [RetNone EXCEPT !.op = "answered", !.url = calls.tasks[i],
                              !.status = answer.status, !.time = now]
    /\ UNCHANGED <<last_refresh, initialized, routerVars, dbVars, now, overlapped>>

\* gather returns when every task has: the results are collected
GatherReturns ==
    /\ calls.op # "none"
    /\ Returned(calls) = 1..Len(calls.tasks)
    /\ \E winner \in {IF calls.op = "batch_health_check" THEN None
                      ELSE Fastest(calls.tasks, [resp |-> calls.resp], None)} :
          ret' = [RetNone EXCEPT
                     !.op = calls.op, !.url = winner, !.time = now,
                     !.response_time = IF winner = None THEN 0
                                       ELSE calls.resp[winner].time,
                     !.excluded = calls.exclude, !.probed = calls.tasks,
                     !.resp = calls.resp, !.pre_pool = calls.start_pool,
                     !.max_concurrent = calls.max_concurrent,
                     !.max_test = calls.max_test,
                     !.working = {calls.tasks[i] : i \in {j \in 1..Len(calls.tasks) :
                                                            calls.pc[j] = "true"}}]
    /\ calls' = NoBatch
    /\ UNCHANGED <<poolVars, routerVars, dbVars, now, overlapped>>

InitBatch ==
    /\ InitPool
    /\ free_proxy_manager = TRUE
    /\ free_proxy_enabled = TRUE
    /\ proxy_config = [proxy_enabled |-> FALSE, proxy_url |-> None]
    /\ tokens = <<>>
    /\ token_stats = <<>>
    /\ now = StartTime
    /\ ret = RetNone
    /\ calls = NoBatch
    /\ overlapped = FALSE

BatchFetches == {FetchFailed, [ok |-> TRUE, data |-> FeedMixed]}

BatchStep ==
    \/ EnterSemaphore
    \/ \E i \in 1..Cardinality(PoolUrls), answer \in {Fast, Refused, TimedOut} :
          ProbeAnswered(i, answer)
    \/ GatherReturns

NextBatch ==
    \/ \E max_concurrent \in 1..MaxConcurrent, fetch \in BatchFetches :
          StartBatchHealthCheck(max_concurrent, fetch)
    \/ \E exclude_urls \in {{}, {"socks5://a:1080"}}, max_test \in {2, MAX_TEST},
          max_concurrent \in 1..MaxConcurrent, fetch \in BatchFetches :
          StartFindFastestWorkingProxy(exclude_urls, max_test, max_concurrent, fetch)
    \/ BatchStep

SpecBatch == InitBatch /\ [][NextBatch]_vars

\* the event loop runs every task that can run, and every request ends within
\* HEALTH_CHECK_TIMEOUT with an answer or an exception
SpecBatchLive == SpecBatch /\ WF_vars(BatchStep)

\* gather has returned from a call that had tasks
Gathered == ret.op \in {"batch_health_check", "find_fastest_working_proxy"} /\ ret.probed # <<>>

\* every probed url has one report more than when the call began, a success
\* exactly for an answer of 200
AllReported ==
    \A i \in 1..Len(ret.probed) :
       LET u == ret.probed[i]
           p == Lookup(ret.pre_pool, u)
           q == Lookup(proxies, u)
       IN /\ Probes(q) = Probes(p) + 1
          /\ q.success_count = p.success_count + (IF ret.resp[u].status = 200 THEN 1 ELSE 0)
          /\ u \in ret.working <=> ret.resp[u].status = 200

\* the urls a call is to probe
SelectedFor(op, pool, exclude_urls) ==
    IF op = "batch_health_check" THEN UrlsOf(pool)
    ELSE {u \in UrlsOf(pool) : Lookup(pool, u).is_healthy /\ u \notin exclude_urls}

\* the probed urls are selected ones, each once, and all of them unless
\* max_test cut the list
AllSelected ==
    LET probed == {ret.probed[i] : i \in 1..Len(ret.probed)}
        selected == SelectedFor(ret.op, ret.pre_pool, ret.excluded)
    IN /\ probed \subseteq selected
       /\ Cardinality(probed) = Len(ret.probed)
       /\ Len(ret.probed) = Min(ret.max_test, Cardinality(selected))

\* C31: during batch_health_check(max_concurrent) and
\* find_fastest_working_proxy(max_concurrent) never more than max_concurrent
\* requests are in flight; every task of the call, whatever the other tasks'
\* probes answered or raised, comes to report and return; and when gather
\* returns every selected url (all of them for the batch, the first max_test
\* healthy ones not excluded for the race) has been probed and reported
\* exactly once
C31_BatchBounded ==
    /\ [](Cardinality(InFlight(calls)) <= calls.max_concurrent)
    /\ [](Gathered => AllReported)
    /\ [](Gathered => AllSelected)
    /\ \A i \in 1..Cardinality(PoolUrls) :
          (i \in Waiting(calls) \cup InFlight(calls)) ~> (i \in Returned(calls))

\* C31 witness: a race of three probes with max_concurrent 1 has returned; the
\* first probe raised, and a later one answered 200 and was reported
C31_Witness ==
    /\ Gathered
    /\ ret.op = "find_fastest_working_proxy"
    /\ ret.max_concurrent = 1
    /\ Len(ret.probed) = 3
    /\ ret.resp[ret.probed[1]] = TimedOut
    /\ ret.probed[3] \in ret.working
    /\ Lookup(proxies, ret.probed[3]).success_count
          = Lookup(ret.pre_pool, ret.probed[3]).success_count + 1

(***************************************************************************)
(* get_best_proxy on the pool as refreshes and reports leave it             *)

CallGetBestProxy(exclude_urls, fetch) ==
    /\ fetch.ok \/ NeedsRefresh(last_refresh, now)
    /\ \E fresh \in {EnsureFreshProxies(Pool, fetch, now)} :
          /\ proxies' = fresh.proxies
          /\ last_refresh' = fresh.last_refresh
          /\ ret' = [PoolRet("get_best_proxy", GetBestProxy(fresh.proxies, exclude_urls))
                        EXCEPT !.excluded = exclude_urls, !.fetch = fetch]
    /\ UNCHANGED <<initialized, routerVars, dbVars, now, calls, overlapped>>

ExcludeSets == {{}, {"socks5://a:1080"}, {"socks5://a:1080", "socks5://c:1080"},
                {"socks5://b:1080", "socks5://c:1080"}, PoolUrls}

NextBest ==
    \/ \E data \in {FeedMixed, Feed2} : CallRefreshProxyList([ok |-> TRUE, data |-> data])
    \/ \E url \in PoolUrls : CallReportSuccess(url, Fast.time)
    \/ \E url \in PoolUrls : CallReportFailure(url)
    \/ \E exclude_urls \in ExcludeSets, fetch \in {FetchFailed, [ok |-> TRUE, data |-> FeedMixed]} :
          CallGetBestProxy(exclude_urls, fetch)

SpecBest == InitPoolOnly /\ [][NextBest]_vars

BestAsked == ret.op = "get_best_proxy"

\* the healthy records in the order _get_healthy_proxies gives them
HealthyOrdered == GetHealthyProxies(proxies)

BindExcluded ==
    ret.exclude_urls
    \cup ({tokens[j].proxy_url : j \in DOMAIN tokens \ {ret.token_id}} \ {None})

\* C33: one bind_proxy_to_token call makes at most max_attempts probes, probes
\* no url twice and no url of its exclude set (exclude_urls and the proxies
\* bound to other credentials), and returns a url it probed or none
C33_BindBounded ==
    ret.op = "bind_proxy_to_token"
    => LET probed == {ret.probed[i] : i \in 1..Len(ret.probed)}
       IN /\ Len(ret.probed) <= ret.max_attempts
          /\ Cardinality(probed) = Len(ret.probed)
          /\ probed \cap BindExcluded = {}
          /\ ret.url \in probed \cup {None}

\* C33 witness: a call with max_attempts 1 probed one url, which failed, and
\* returned none while the pool still held a url it had not tried
C33_Witness ==
    /\ ret.op = "bind_proxy_to_token"
    /\ ret.max_attempts = 1
    /\ Len(ret.probed) = 1
    /\ ret.url = None
    /\ \E u \in UrlsOf(proxies) \ BindExcluded : u # ret.probed[1]

(***************************************************************************)
(* rebind_proxy_on_failure: the report and the bind that follows            *)

Rebound == ret.op = "rebind_proxy_on_failure"

\* the failures counted for url in a pool, none for a url the pool does not hold
FailuresIn(pool, url) == IF InPool(pool, url) THEN Lookup(pool, url).failure_count ELSE 0

\* C34: rebind_proxy_on_failure(token_id, failed_proxy_url) reports the failure
\* of failed_proxy_url once: the pool its bind starts from, before any candidate
\* is probed, already counts one failure more for a url of the pool, and the
\* pool at the return, if it still holds the url, counts no further one.  The
\* failed url is not probed, and the url returned and bound is not the failed
\* url.
C34_ReportThenRebind ==
    Rebound
    => LET failed == ret.explicit
       IN /\ InPool(ret.pre_pool, failed)
             => /\ FailuresIn(ret.entry_pool, failed) = FailuresIn(ret.pre_pool, failed) + 1
                /\ InPool(proxies, failed)
                   => Lookup(proxies, failed).failure_count
                         = FailuresIn(ret.pre_pool, failed) + 1
          /\ \A u \in PoolUrls \ {failed} :
                FailuresIn(ret.entry_pool, u) = FailuresIn(ret.pre_pool, u)
          /\ \A i \in 1..Len(ret.probed) : ret.probed[i] # failed
          /\ ret.url # failed
          /\ ProxyOf(tokens, ret.token_id) # ret.pre_proxy
             => ProxyOf(tokens, ret.token_id) = ret.url

\* C34 witness: the credential's proxy, a url of the pool, was reported and
\* another url was probed, bound and returned
C34_Witness ==
    /\ Rebound
    /\ ret.pre_proxy = ret.explicit
    /\ InPool(ret.pre_pool, ret.explicit) /\ InPool(proxies, ret.explicit)
    /\ Len(ret.probed) >= 1
    /\ ret.url # None
    /\ tokens[ret.token_id].proxy_url = ret.url

(***************************************************************************)
(* Probes and refreshes in flight together.  Task k probes a url: it is     *)
(* suspended at its request and reports when the answer is there.  A        *)
(* refresh is suspended at its request for the list and parses the answer   *)
(* when it is there.  calls counts, for every url, the report_success and   *)
(* report_failure calls made for it since it last entered the pool.         *)

NoReporting ==
    [probe |-> [k \in Tasks |-> None], fetching |-> FALSE, snapshot |-> <<>>,
     successes |-> [u \in PoolUrls |-> 0], failures |-> [u \in PoolUrls |-> 0],
     probes |-> 0, fetches |-> 0]

\* a refresh that merges into the pool as it was when the request was sent
RecordsAtRequest(current, snapshot) == snapshot

\* `existing = self._proxies[proxy_url]`: the records a refresh keeps are those
\* of the pool as it is when the answer is parsed
ExistingRecords(current, snapshot) == current

InitReporting ==
    /\ InitPool
    /\ free_proxy_manager = TRUE
    /\ free_proxy_enabled = TRUE
    /\ proxy_config = [proxy_enabled |-> FALSE, proxy_url |-> None]
    /\ tokens = <<>>
    /\ token_stats = <<>>
    /\ now = StartTime
    /\ ret = RetNone
    /\ calls = NoReporting
    /\ overlapped = FALSE

\* health_check_proxy(url) is called by task k and sends its request
SendProbe(k, url) ==
    /\ calls.probe[k] = None
    /\ calls.probes < MaxReports
    /\ calls' = [calls EXCEPT !.probe[k] = url, !.probes = @ + 1]
    /\ ret' = [RetNone EXCEPT !.op = "send_probe", !.url = url]
    /\ UNCHANGED <<poolVars, routerVars, dbVars, now, overlapped>>

\* the request of task k is answered or raises, and the task reports
ProbeReturns(k, answer) ==
    /\ calls.probe[k] # None
    /\ \E url \in {calls.probe[k]} :
       \E check \in {HealthCheckProxy(proxies, url, answer, now)} :
          /\ proxies' = check.proxies
          /\ calls' = [calls EXCEPT
                          !.probe[k] = None,
                          !.successes[url] = IF check.working THEN @ + 1 ELSE @,
                          !.failures[url] = IF check.working THEN @ ELSE @ + 1]
          /\ ret' = [RetNone EXCEPT !.op = "health_check_proxy", !.url = url,
                                    !.valid = check.working, !.status = answer.status]
    /\ UNCHANGED <<last_refresh, initialized, routerVars, dbVars, now, overlapped>>

\* _refresh_proxy_list sends its request
SendFetch ==
    /\ ~calls.fetching
    /\ calls.fetches < MaxReports
    /\ calls' = [calls EXCEPT !.fetching = TRUE, !.snapshot = proxies, !.fetches = @ + 1]
    /\ ret' = [RetNone EXCEPT !.op = "send_fetch"]
    /\ UNCHANGED <<poolVars, routerVars, dbVars, now, overlapped>>

\* the list arrives and is parsed: a url that enters the pool starts at no reports
FetchReturns(fetch) ==
    /\ calls.fetching
    /\ \E r \in {RefreshProxyList(
                    [proxies |-> ExistingRecords(proxies, calls.snapshot),
                     last_refresh |-> last_refresh], fetch, now)} :
          /\ proxies' = r.proxies
          /\ last_refresh' = r.last_refresh
          /\ calls' = [calls EXCEPT
                          !.fetching = FALSE, !.snapshot = <<>>,
                          !.successes = [u \in PoolUrls |->
                              IF InPool(r.proxies, u) /\ ~InPool(proxies, u) THEN 0 ELSE @[u]],
                          !.failures = [u \in PoolUrls |->
                              IF InPool(r.proxies, u) /\ ~InPool(proxies, u) THEN 0 ELSE @[u]]]
          /\ overlapped' = (overlapped \/ \E k \in Tasks :
                                             /\ calls.probe[k] # None
                                             /\ InPool(proxies, calls.probe[k])
                                             /\ InPool(r.proxies, calls.probe[k]))
    /\ ret' = [RetNone EXCEPT !.op = "_refresh_proxy_list", !.fetch = fetch,
                              !.pre_pool = proxies]
    /\ UNCHANGED <<initialized, routerVars, dbVars, now>>

NextReporting ==
    \/ \E k \in Tasks, url \in PoolUrls : SendProbe(k, url)
    \/ \E k \in Tasks, answer \in {Fast, Refused, TimedOut} : ProbeReturns(k, answer)
    \/ SendFetch
    \/ \E fetch \in Fetches : FetchReturns(fetch)

SpecReporting == InitReporting /\ [][NextReporting]_vars

\* C35: under any interleaving of probes and refreshes, a url of the pool
\* counts as many successes and failures as report_success and report_failure
\* calls were made for it since it entered the pool: no report is lost and
\* none is applied twice
C35_NoLostReport ==
    \A i \in 1..Len(proxies) :
       /\ proxies[i].success_count = calls.successes[proxies[i].url]
       /\ proxies[i].failure_count = calls.failures[proxies[i].url]

\* C35 witness: a refresh was parsed while a probe of a url that stayed in the
\* pool was in flight, and that url now counts a success and a failure
C35_Witness ==
    /\ overlapped
    /\ \E i \in 1..Len(proxies) :
          /\ proxies[i].success_count >= 1
          /\ proxies[i].failure_count >= 1
          /\ ret.op = "health_check_proxy" /\ ret.url = proxies[i].url

(***************************************************************************)
(* The proxy setting of the requests TokenManager sends.  A handler takes   *)
(* what get_proxy_url returns, the pair (proxy_url, bind_action), into its  *)
(* local proxy_url and builds the request's kwargs from it.                 *)

\* `if proxy_url: kwargs["proxy"] = proxy_url` on the value returned: a pair
\* is true whatever it holds
ProxyKwarg(returned) ==
    IF Len(returned) > 0 THEN [set |-> TRUE, value |-> returned]
    ELSE [set |-> FALSE, value |-> <<>>]

\* a handler up to its request: get_proxy_url, then the kwargs
Outbound(op, token_id, proxy_url, env) ==
    /\ \E r \in {GetProxyUrl(PoolI, tokens, free_proxy_enabled /\ free_proxy_manager,
                            proxy_config, token_id, proxy_url, env, now)} :
          /\ proxies' = r.proxies
          /\ last_refresh' = r.last_refresh
          /\ initialized' = r.initialized
          /\ tokens' = r.tokens
          /\ ret' = [RetNone EXCEPT !.op = op, !.token_id = token_id,
                         !.explicit = proxy_url,
                         !.url = r.url, !.action = r.action, !.bound = r.bound,
                         !.proxy = ProxyKwarg(<<r.url, r.action>>)]
    /\ UNCHANGED <<routerVars, proxy_config, token_stats, now, calls, overlapped>>

\* get_user_info(access_token, token_id, proxy_url)
CallGetUserInfo(token_id, proxy_url, env) ==
    /\ RouteBudget
    /\ FetchRead(env) \/ ~initialized
    /\ Outbound("get_user_info", token_id, proxy_url, env)

\* st_to_at(session_token, proxy_url): resolves with no token id
CallStToAt(proxy_url, env) ==
    /\ RouteBudget
    /\ FetchRead(env) \/ ~initialized
    /\ Outbound("st_to_at", NoId, proxy_url, env)

NextOutbound ==
    \/ \E enabled \in BOOLEAN : SetFreeProxyManager(enabled)
    \/ \E enabled \in BOOLEAN, u \in {None, GlobalUrl} : UpdateProxyConfig(enabled, u)
    \/ \E id \in CallIds, u \in {None, OperatorUrl}, env \in RouteEnvs :
          CallGetUserInfo(id, u, env)
    \/ \E u \in {None, OperatorUrl}, env \in RouteEnvs : CallStToAt(u, env)

SpecOutbound == InitRoute /\ [][NextOutbound]_vars

\* C36: a request of get_user_info or st_to_at carries as its proxy setting
\* exactly the url get_proxy_url resolved, and no proxy setting when it
\* resolved none
C36_RequestUsesResolved ==
    ret.op \in {"get_user_info", "st_to_at"}
    => IF ret.url = None THEN ~ret.proxy.set
       ELSE ret.proxy = [set |-> TRUE, value |-> <<ret.url>>]

(***************************************************************************)
(* The active flag under the cooldown refresh                               *)

\* C37: refresh_sora2_remaining_if_cooldown_expired leaves the token's active
\* flag as it found it: a token disabled when its quota ran out is still
\* disabled after the cooldown was reached and cleared, whatever remaining
\* count the query gave
C37_RefreshKeepsActiveFlag ==
    CooldownRefreshed
    => tokens[ret.token_id].is_active = ret.pre_row.is_active

\* C37 witness: a disabled token's cooldown was reached and cleared, the query
\* gave more than one use left, and the token is still disabled
C37_Witness ==
    /\ CooldownRefreshed
    /\ CooldownReached
    /\ ret.queried /\ ret.status = 200
    /\ ~ret.pre_row.is_active
    /\ tokens[ret.token_id].sora2_cooldown_until = NoTime
    /\ tokens[ret.token_id].sora2_remaining_count > 1
    /\ ~tokens[ret.token_id].is_active

(***************************************************************************)
(* auto_refresh_expiring_token on a token with neither ST nor RT            *)

\* the row the call found holds no session token and no refresh token
NoSecondary == ret.pre_row.st = None /\ ret.pre_row.rt = None

\* C38: auto_refresh_expiring_token on a token whose expiry is at most 24
\* hours away, in the past or still ahead, and which has neither ST nor RT,
\* makes no exchange, disables the token and returns False; the rest of the
\* row stays as it was
C38_NoSecondaryDisables ==
    AutoRefreshed /\ RefreshDue /\ NoSecondary
    => /\ ret.exchanges = <<>>
       /\ ~ret.valid
       /\ tokens[ret.token_id] = [ret.pre_row EXCEPT !.is_active = FALSE]

\* C38 witness: an active token that expires in 10 hours and has no ST and no
\* RT was disabled by the call
C38_Witness ==
    /\ AutoRefreshed /\ RefreshDue /\ NoSecondary
    /\ ret.pre_row.is_active
    /\ ret.pre_row.expiry_time > ret.time
    /\ ~tokens[ret.token_id].is_active

(***************************************************************************)
(* The binding after a rebind that found no replacement.  ret.after_failed  *)
(* of a get_proxy_url call is the proxy whose failure the call before it,   *)
(* a report_proxy_failure for the same token, reported without finding a    *)
(* replacement.                                                             *)

\* C39: when rebind_proxy_on_failure finds no working replacement and returns
\* none, the token's stored binding is still the failed proxy url, and a
\* get_proxy_url for that token that follows returns the failed proxy again
C39_FailedRebindKeepsBinding ==
    /\ FailedRebind
       => /\ ret.pre_proxy # None
          /\ ProxyOf(tokens, ret.token_id) = ret.pre_proxy
    /\ ret.op = "get_proxy_url" /\ ret.after_failed # None /\ ret.explicit = None
       => /\ ret.url = ret.after_failed
          /\ ProxyOf(tokens, ret.token_id) = ret.after_failed

\* C39 witness: a get_proxy_url that followed a failed rebind returned the
\* proxy that had failed, a url of the pool
C39_Witness ==
    /\ ret.op = "get_proxy_url"
    /\ ret.explicit = None
    /\ ret.after_failed # None
    /\ ret.url = ret.after_failed
    /\ InPool(proxies, ret.url)
    /\ Lookup(proxies, ret.url).failure_count >= 1

(***************************************************************************)
(* The active flag and the consecutive-error count under record_error,      *)
(* record_success, enable_token, disable_token, test_token and              *)
(* auto_refresh_expiring_token on one token, the threshold fixed            *)

NextBan ==
    \/ \E is_overload \in BOOLEAN : CallRecordError(1, is_overload)
    \/ CallRecordSuccess(1, FALSE, QuietEnv)
    \/ CallEnableToken(1)
    \/ CallDisableToken(1)
    \/ \E env \in LifecycleTestEnvs(RowOf(tokens, 1)) : CallTestToken(1, env)
    \/ \E token_id \in Callable({1}) :
          \E env \in LifecycleRefreshEnvs(RowOf(tokens, token_id)) :
             CallAutoRefreshExpiringToken(token_id, env)

SpecBan == InitLifecycle /\ [][NextBan]_vars

\* C40: whenever the token is active its consecutive-error count is below the
\* ban threshold
C40_ActiveBelowThreshold ==
    tokens[1].is_active => token_stats[1].consecutive_error_count < ErrorBanThreshold

====
